---- MODULE Spec2Model ----
(***************************************************************************)
(* xchecker: exclusive per-spec lock, artifact store (staging/promotion),  *)
(* secret redactor and phase orchestrator.                                 *)
(*                                                                         *)
(* The module holds these specifications over one set of variables:        *)
(*   SpecLock   - processes constructing / dropping ArtifactManager        *)
(*   SpecStore  - the lock holder using the ArtifactManager API, observed  *)
(*                by a concurrent reader                                   *)
(*   Spec       - the phase orchestrator (run_phase attempts)              *)
(*   SpecRedact - the SecretRedactor as pure functions over contents       *)
(*   SpecAccess - managers with and without the lock using the store       *)
(*   SpecCanon  - the canonical serialization of records                   *)
(* Each specification leaves the variables of the other parts unchanged.   *)
(***************************************************************************)
EXTENDS Integers, Sequences, FiniteSets, TLC

VARIABLES
    \* ---- lock manager (src/src/artifact.rs new_with_force, crate::lock) ----
    lockFile,     \* the lock file of the spec: NoLock or [pid, created_at]
    now,          \* wall clock, in ticks
    alive,        \* alive[p]: the OS process p is running
    pc,           \* pc[p]: position of p inside ArtifactManager::new_with_force
    force,        \* force[p]: the force argument of p's current / last call
    held,         \* held[p]: p owns a FileLock value (ArtifactManager._lock = Some)
    res,          \* res[p]: result of p's last new_with_force call
    dirs,         \* directories that exist under the spec root
    forceUsed,    \* history: some acquire so far was made with force = true
    \* ---- secret redactor (src/src/redaction.rs) ----
    content,      \* the content handed to the redactor
    ignored,      \* SecretRedactor.ignored_patterns
    patOrder,     \* iteration order of the HashMap default_patterns
    out,          \* the operation applied to content and what it returned
    \* ---- artifact store (src/src/artifact.rs) ----
    artifactsDir, \* files of <spec root>/artifacts: name -> content
    partialDir,   \* files of <spec root>/.partial (staging): name -> content
    partialExists,\* the directory <spec root>/.partial exists
    op,           \* the ArtifactManager call the lock holder is inside of
    ret,          \* what the lock holder's last call returned
    nOps,         \* calls made so far
    \* ---- phase orchestrator (src/src/orchestrator) ----
    policy,       \* what the gate does with a secret: "block" or "redact"
    run,          \* the run_phase attempt in progress, or the last one
    receipts,     \* the receipts emitted, in order of emission
    backendCalls, \* the invocations handed to the LLM backend, in order
    nAttempts,    \* run_phase calls made so far
    \* ---- canonical serialization (src/src/bin/regenerate_examples.rs) ----
    record,       \* the record in memory, its keys in the order it was built
    canonical,    \* the last canonical serialization made, and of what
    \* ---- LLM invocation (src/src/orchestrator/llm.rs) ----
    config,       \* OrchestratorConfig.config: key -> text
    invocation    \* the last call of the invocation helpers and its result

lockVars == <<lockFile, now, alive, pc, force, held, res, dirs, forceUsed>>

redactVars == <<content, ignored, patOrder, out>>

storeVars == <<artifactsDir, partialDir, partialExists, op, ret, nOps>>

orchVars == <<policy, run, receipts, backendCalls, nAttempts>>

canonVars == <<record, canonical>>

llmVars == <<config, invocation>>

\* What the lock manager never touches.
nonLockVars == <<redactVars, storeVars, orchVars, canonVars, llmVars>>

\* What the redactor never touches.
nonRedactVars == <<lockVars, storeVars, orchVars, canonVars, llmVars>>

\* What a call of the artifact store never touches.
nonStoreVars == <<lockVars, redactVars, orchVars, canonVars, llmVars>>

vars == <<lockVars, redactVars, storeVars, orchVars, canonVars, llmVars>>

\* ------------------------------------------------------------------------
\* Bounds of the model
\* ------------------------------------------------------------------------
NumProcs == 2
MaxTime == 3
MaxLen == 4
MaxOps == 4
MaxAttempts == 2
MaxOutputs == 2

\* ------------------------------------------------------------------------
\* Lock manager
\* ------------------------------------------------------------------------
Procs == 1..NumProcs

NoLock == [pid |-> 0, created_at |-> 0]

\* Staleness threshold in ticks (acquire is called with ttl = None).
TTL == 1

NoResult == [kind |-> "none", pid |-> 0, age |-> 0]

\* Lock.age: now - created_at
Age(lock) == now - lock.created_at

\* staleness = (age beyond threshold) OR (owner process no longer alive)
IsStale(lock) == Age(lock) > TTL \/ ~alive[lock.pid]

\* FileLock::acquire(spec_id, force, None): result and the lock file it leaves.
FileLockAcquire(p, f) ==
    IF lockFile = NoLock \/ f
    THEN [kind |-> "ok", pid |-> p, age |-> 0,
          file |-> [pid |-> p, created_at |-> now]]
    ELSE IF IsStale(lockFile)
    THEN [kind |-> "StaleLock", pid |-> lockFile.pid, age |-> Age(lockFile),
          file |-> lockFile]
    ELSE [kind |-> "ConcurrentExecution", pid |-> lockFile.pid,
          age |-> Age(lockFile), file |-> lockFile]

\* FileLock::release / Drop: removes the lock file.
FileLockRelease == NoLock

\* A faulty map_err: a stale lock is taken as acquired.
MapLockError_StaleProceeds(r) ==
    IF r.kind = "StaleLock"
    THEN [kind |-> "ok", pid |-> r.pid, age |-> r.age]
    ELSE [kind |-> r.kind, pid |-> r.pid, age |-> r.age]

\* A faulty map_err: the message names the caller's lock (pid 0, age 0).
MapLockError_DropsOwner(r) ==
    IF r.kind = "ConcurrentExecution"
    THEN [kind |-> r.kind, pid |-> 0, age |-> 0]
    ELSE [kind |-> r.kind, pid |-> r.pid, age |-> r.age]

\* A faulty map_err: both lock errors give the ConcurrentExecution message.
MapLockError_OneMessage(r) ==
    IF r.kind = "StaleLock"
    THEN [kind |-> "ConcurrentExecution", pid |-> r.pid, age |-> r.age]
    ELSE [kind |-> r.kind, pid |-> r.pid, age |-> r.age]

\* new_with_force, lines 95-110: the acquire result as the caller gets it.
\* Ok(lock) is kept; ConcurrentExecution{pid, created_ago} and
\* StaleLock{pid, age_secs} become messages that carry the same pid and age.
MapLockError(r) == [kind |-> r.kind, pid |-> r.pid, age |-> r.age]

\* The redactor at rest: no content handed to it.
RedactIdle ==
    /\ content = <<>>
    /\ ignored = {}
    /\ patOrder = <<"github_pat", "aws_secret_key">>
    /\ out = [op |-> "none"]

\* The spec root right after construction: the directories, no file.
EmptyDir == [n \in {} |-> <<>>]

NoCall == [name |-> "idle"]

StoreIdle ==
    /\ artifactsDir = EmptyDir
    /\ partialDir = EmptyDir
    /\ partialExists = TRUE
    /\ op = NoCall
    /\ ret = [of |-> "none"]
    /\ nOps = 0

\* No run_phase attempt made yet.
NoOutcome == [kind |-> "none", response |-> <<>>, stderr |-> <<>>]

NoRun ==
    [phase |-> "none", step |-> "idle", result |-> "none", packet |-> <<>>,
     prompt |-> <<>>, outcome |-> NoOutcome, response |-> <<>>, stderr_tail |-> <<>>,
     reason |-> <<>>,
     invoked |-> 0, before |-> EmptyDir, staged |-> EmptyDir,
     planned |-> <<>>, warned |-> FALSE]

\* No record built, nothing serialized.
NoRecord == [t |-> "obj", fields |-> <<>>]
NoBytes == [bytes |-> <<>>, of |-> NoRecord]

CanonIdle ==
    /\ record = NoRecord
    /\ canonical = NoBytes

\* No configuration key set, no invocation helper called.
NoConfig == [k \in {} |-> <<>>]
NoInvocation == [op |-> "none"]

LlmIdle ==
    /\ config = NoConfig
    /\ invocation = NoInvocation

OrchIdle ==
    /\ policy = "block"
    /\ run = NoRun
    /\ receipts = <<>>
    /\ backendCalls = <<>>
    /\ nAttempts = 0

SpecDirs == {"base", "artifacts", "receipts", "context"}
AllDirs == SpecDirs \cup {".partial"}

\* p enters ArtifactManager::new_with_force(spec_id, f)
Call(p, f) ==
    /\ alive[p] /\ pc[p] = "idle"
    /\ pc' = [pc EXCEPT ![p] = "ensure_spec_dirs"]
    /\ force' = [force EXCEPT ![p] = f]
    /\ res' = [res EXCEPT ![p] = NoResult]
    /\ UNCHANGED <<lockFile, now, alive, held, dirs, forceUsed>>
    /\ UNCHANGED nonLockVars

\* A faulty new_with_force: the whole directory structure, staging
\* directory included, is created before the lock is acquired.
EnsureSpecDirs_WholeStructure(p) ==
    /\ alive[p] /\ pc[p] = "ensure_spec_dirs"
    /\ dirs' = dirs \cup AllDirs
    /\ pc' = [pc EXCEPT ![p] = "acquire"]
    /\ UNCHANGED <<lockFile, now, alive, force, held, res, forceUsed>>
    /\ UNCHANGED nonLockVars

\* Self::ensure_spec_dirs(&base_path)?  (before the lock is acquired)
EnsureSpecDirs(p) ==
    /\ alive[p] /\ pc[p] = "ensure_spec_dirs"
    /\ dirs' = dirs \cup SpecDirs
    /\ pc' = [pc EXCEPT ![p] = "acquire"]
    /\ UNCHANGED <<lockFile, now, alive, force, held, res, forceUsed>>
    /\ UNCHANGED nonLockVars

\* A faulty new_with_force: the force flag is not handed to FileLock::acquire.
Acquire_IgnoresForce(p) ==
    /\ alive[p] /\ pc[p] = "acquire"
    /\ LET r == FileLockAcquire(p, FALSE)
           m == MapLockError(r)
       IN /\ res' = [res EXCEPT ![p] = m]
          /\ lockFile' = r.file
          /\ held' = [held EXCEPT ![p] = (m.kind = "ok")]
          /\ pc' = [pc EXCEPT ![p] =
                       IF m.kind = "ok" THEN "ensure_directory_structure"
                       ELSE "idle"]
    /\ forceUsed' = (forceUsed \/ force[p])
    /\ UNCHANGED <<now, alive, force, dirs>>
    /\ UNCHANGED nonLockVars

\* let lock = FileLock::acquire(spec_id, force, None).map_err(..)?
Acquire(p) ==
    /\ alive[p] /\ pc[p] = "acquire"
    /\ LET r == FileLockAcquire(p, force[p])
           m == MapLockError(r)
       IN /\ res' = [res EXCEPT ![p] = m]
          /\ lockFile' = r.file
          /\ held' = [held EXCEPT ![p] = (m.kind = "ok")]
          /\ pc' = [pc EXCEPT ![p] =
                       IF m.kind = "ok" THEN "ensure_directory_structure"
                       ELSE "idle"]
    /\ forceUsed' = (forceUsed \/ force[p])
    /\ UNCHANGED <<now, alive, force, dirs>>
    /\ UNCHANGED nonLockVars

\* A faulty new_with_force: on an error of ensure_directory_structure the
\* manager's lock is not released.
EnsureDirectoryStructure_KeepsLock(p) ==
    /\ alive[p] /\ pc[p] = "ensure_directory_structure"
    /\ \/ /\ dirs' = dirs \cup AllDirs
          /\ pc' = [pc EXCEPT ![p] = "ready"]
          /\ UNCHANGED <<lockFile, held, res>>
       \/ /\ res' = [res EXCEPT ![p] = [kind |-> "io", pid |-> 0, age |-> 0]]
          /\ pc' = [pc EXCEPT ![p] = "idle"]
          /\ UNCHANGED <<lockFile, held, dirs>>
    /\ UNCHANGED <<now, alive, force, forceUsed>>
    /\ UNCHANGED nonLockVars

\* manager.ensure_directory_structure()?  On an error the manager, and the
\* FileLock it owns, is dropped before the error is returned.
EnsureDirectoryStructure(p) ==
    /\ alive[p] /\ pc[p] = "ensure_directory_structure"
    /\ \/ /\ dirs' = dirs \cup AllDirs
          /\ pc' = [pc EXCEPT ![p] = "ready"]
          /\ UNCHANGED <<lockFile, held, res>>
       \/ /\ lockFile' = FileLockRelease
          /\ held' = [held EXCEPT ![p] = FALSE]
          /\ res' = [res EXCEPT ![p] = [kind |-> "io", pid |-> 0, age |-> 0]]
          /\ pc' = [pc EXCEPT ![p] = "idle"]
          /\ UNCHANGED dirs
    /\ UNCHANGED <<now, alive, force, forceUsed>>
    /\ UNCHANGED nonLockVars

\* The ArtifactManager goes out of scope (return, error or panic unwinding).
Drop(p) ==
    /\ alive[p] /\ pc[p] = "ready"
    /\ lockFile' = FileLockRelease
    /\ held' = [held EXCEPT ![p] = FALSE]
    /\ pc' = [pc EXCEPT ![p] = "idle"]
    /\ UNCHANGED <<now, alive, force, res, dirs, forceUsed>>
    /\ UNCHANGED nonLockVars

\* A faulty new_readonly: the spec directories are created as in new_with_force.
CallReadonly_EnsuresDirs(p) ==
    /\ alive[p] /\ pc[p] = "idle"
    /\ pc' = [pc EXCEPT ![p] = "readonly"]
    /\ force' = [force EXCEPT ![p] = FALSE]
    /\ res' = [res EXCEPT ![p] = [kind |-> "ok", pid |-> 0, age |-> 0]]
    /\ dirs' = dirs \cup SpecDirs
    /\ UNCHANGED <<lockFile, now, alive, held, forceUsed>>
    /\ UNCHANGED nonLockVars

\* p calls ArtifactManager::new_readonly(spec_id): the manager is built
\* with _lock = None; no directory is created and the lock is not looked at.
CallReadonly(p) ==
    /\ alive[p] /\ pc[p] = "idle"
    /\ pc' = [pc EXCEPT ![p] = "readonly"]
    /\ force' = [force EXCEPT ![p] = FALSE]
    /\ res' = [res EXCEPT ![p] = [kind |-> "ok", pid |-> 0, age |-> 0]]
    /\ UNCHANGED <<lockFile, now, alive, held, dirs, forceUsed>>
    /\ UNCHANGED nonLockVars

\* A read-only ArtifactManager goes out of scope: it owns no lock.
DropReadonly(p) ==
    /\ alive[p] /\ pc[p] = "readonly"
    /\ pc' = [pc EXCEPT ![p] = "idle"]
    /\ UNCHANGED <<lockFile, now, alive, force, held, res, dirs, forceUsed>>
    /\ UNCHANGED nonLockVars

\* The process is killed: nothing is released.
Crash(p) ==
    /\ alive[p]
    /\ alive' = [alive EXCEPT ![p] = FALSE]
    /\ held' = [held EXCEPT ![p] = FALSE]
    /\ pc' = [pc EXCEPT ![p] = "crashed"]
    /\ UNCHANGED <<lockFile, now, force, res, dirs, forceUsed>>
    /\ UNCHANGED nonLockVars

Tick ==
    /\ now < MaxTime
    /\ now' = now + 1
    /\ UNCHANGED <<lockFile, alive, pc, force, held, res, dirs, forceUsed>>
    /\ UNCHANGED nonLockVars

LockIdle ==
    /\ lockFile = NoLock
    /\ now = 0
    /\ alive = [p \in Procs |-> TRUE]
    /\ pc = [p \in Procs |-> "idle"]
    /\ force = [p \in Procs |-> FALSE]
    /\ held = [p \in Procs |-> FALSE]
    /\ res = [p \in Procs |-> NoResult]
    /\ dirs = {}
    /\ forceUsed = FALSE

InitLock ==
    /\ LockIdle
    /\ RedactIdle
    /\ StoreIdle
    /\ OrchIdle
    /\ CanonIdle
    /\ LlmIdle

NextLock ==
    \/ \E p \in Procs, f \in BOOLEAN : Call(p, f)
    \/ \E p \in Procs : EnsureSpecDirs(p)
    \/ \E p \in Procs : Acquire(p)
    \/ \E p \in Procs : EnsureDirectoryStructure(p)
    \/ \E p \in Procs : Drop(p)
    \/ \E p \in Procs : CallReadonly(p)
    \/ \E p \in Procs : DropReadonly(p)
    \/ \E p \in Procs : Crash(p)
    \/ Tick

SpecLock == InitLock /\ [][NextLock]_vars

\* Processes that hold the lock of the spec.
Holders == {p \in Procs : alive[p] /\ held[p]}

\* ------------------------------------------------------------------------
\* Claims on the lock manager (checked under SpecLock)
\* ------------------------------------------------------------------------

\* p's pending FileLock::acquire returns in this step.
AcquireReturns(p) == pc[p] = "acquire" /\ alive'[p] /\ pc'[p] # "acquire"

\* C1 (as stated): at every instant at most one process holds the lock of
\* the spec, in every interleaving of acquire and release calls.
C1_AtMostOneHolder == Cardinality(Holders) <= 1

\* C1 (amended): as long as no acquire was made with force = true, at most
\* one process holds the lock of the spec at every instant.
C1_AtMostOneHolderWithoutForce == ~forceUsed => Cardinality(Holders) <= 1

\* C1 witness: without force, one process holds the lock while another one
\* has been refused.
C1_Witness ==
    /\ ~forceUsed
    /\ \E p \in Holders : \E q \in Procs \ {p} :
          res[q].kind \in {"ConcurrentExecution", "StaleLock"}

\* C2: of two concurrent acquire calls without force on a free lock the
\* first to run its atomic creation succeeds and owns the lock file, and a
\* call that finds the winner's fresh lock fails with ConcurrentExecution
\* carrying the winner's pid and the age of its lock; it never succeeds.
C2_ConcurrentAcquire ==
    [][\A p \in Procs :
         (AcquireReturns(p) /\ ~force[p]) =>
            /\ lockFile = NoLock =>
                  /\ res'[p].kind = "ok"
                  /\ held'[p]
                  /\ lockFile' = [pid |-> p, created_at |-> now]
            /\ (lockFile # NoLock /\ alive[lockFile.pid]
                   /\ now - lockFile.created_at <= TTL) =>
                  /\ res'[p] = [kind |-> "ConcurrentExecution",
                                pid |-> lockFile.pid,
                                age |-> now - lockFile.created_at]
                  /\ ~held'[p]
                  /\ lockFile' = lockFile]_vars

\* C2 witness: two calls were in flight on a free lock, one has won and the
\* other holds a ConcurrentExecution error naming the winner.
C2_Witness ==
    \E p \in Procs : \E q \in Procs \ {p} :
        /\ ~force[p] /\ ~force[q]
        /\ res[p].kind = "ok" /\ held[p] /\ lockFile.pid = p
        /\ res[q].kind = "ConcurrentExecution" /\ res[q].pid = p
        /\ res[q].age = now - lockFile.created_at

\* C10: when a lock file exists, acquire with force = false never succeeds
\* and leaves the lock file unchanged; the error is StaleLock when the lock
\* is stale (age beyond the threshold, or owner dead) and
\* ConcurrentExecution otherwise.
C10_ExistingLockRefuses ==
    [][\A p \in Procs :
         (AcquireReturns(p) /\ ~force[p] /\ lockFile # NoLock) =>
            /\ lockFile' = lockFile
            /\ ~held'[p]
            /\ res'[p].kind =
                  IF now - lockFile.created_at > TTL \/ ~alive[lockFile.pid]
                  THEN "StaleLock" ELSE "ConcurrentExecution"]_vars

\* C10 witness: a caller was refused with StaleLock on the lock of a live
\* holder that is still in place.
C10_Witness ==
    \E p \in Procs :
        /\ res[p].kind = "StaleLock" /\ ~held[p] /\ ~force[p]
        /\ lockFile # NoLock /\ lockFile.pid = res[p].pid
        /\ res[p].pid \in Holders

\* ------------------------------------------------------------------------
\* Secret redactor
\* ------------------------------------------------------------------------
\* A content is a sequence of characters. "a" is text that belongs to no
\* secret, "LF" and "CR" are the line feed and the carriage return, "g",
\* "K" and "B" are the characters secrets are made of.
Chars == {"a", "g", "K", "B", "LF", "CR"}

\* Pattern ids of default_patterns that the model keeps: one whose matches
\* are longer than its marker (github_pat: 40 bytes against 21), one whose
\* matches are shorter (aws_secret_key: 22 bytes against 25), and one whose
\* matches take in a match of another pattern (bearer_token: the word
\* Bearer, a blank and the token that follows, which may be a github token).
PatternIds == {"github_pat", "aws_secret_key", "bearer_token"}

\* The text a pattern matches, in model characters.
PatternText(id) ==
    CASE id = "github_pat" -> <<"g", "g", "g">>
      [] id = "aws_secret_key" -> <<"K">>
      [] id = "bearer_token" -> <<"B", "g", "g", "g">>

\* format!("[REDACTED:{}]", pattern_id), in model characters.
Marker(id) == <<"[REDACTED:", id \o "]">>

\* Orders in which a HashMap may iterate over the default patterns.
PatternOrders ==
    {o \in [1..Cardinality(PatternIds) -> PatternIds] :
        \A i, j \in DOMAIN o : i # j => o[i] # o[j]}

\* Strings of at most n characters.
RECURSIVE StringsUpTo(_)
StringsUpTo(n) ==
    IF n = 0 THEN {<<>>}
    ELSE LET shorter == StringsUpTo(n - 1)
         IN shorter \cup {Append(s, c) : s \in {t \in shorter : Len(t) = n - 1},
                                         c \in Chars}

Prefix(s, n) == SubSeq(s, 1, n)
Suffix(s, n) == SubSeq(s, n + 1, Len(s))

\* Position of the first LF of s, 0 when there is none.
RECURSIVE FirstLF(_, _)
FirstLF(s, i) ==
    IF i > Len(s) THEN 0
    ELSE IF s[i] = "LF" THEN i ELSE FirstLF(s, i + 1)

\* str::split_inclusive('\n')
RECURSIVE SplitInclusive(_)
SplitInclusive(s) ==
    IF s = <<>> THEN <<>>
    ELSE LET i == FirstLF(s, 1)
         IN IF i = 0 THEN <<s>>
            ELSE <<Prefix(s, i)>> \o SplitInclusive(Suffix(s, i))

\* str::lines: a piece loses its final LF, and then a final CR.
StripLineEnding(piece) ==
    IF piece # <<>> /\ piece[Len(piece)] = "LF"
    THEN LET l == Prefix(piece, Len(piece) - 1)
         IN IF l # <<>> /\ l[Len(l)] = "CR" THEN Prefix(l, Len(l) - 1) ELSE l
    ELSE piece

Lines(s) ==
    LET pieces == SplitInclusive(s)
    IN [i \in 1..Len(pieces) |-> StripLineEnding(pieces[i])]

\* regex.find_iter(line): the leftmost non-overlapping matches from byte
\* offset i on, as (start, end) byte ranges.
RECURSIVE FindIter(_, _, _)
FindIter(text, line, i) ==
    IF i + Len(text) > Len(line) THEN <<>>
    ELSE IF SubSeq(line, i + 1, i + Len(text)) = text
    THEN <<[start |-> i, end |-> i + Len(text)]>>
            \o FindIter(text, line, i + Len(text))
    ELSE FindIter(text, line, i + 1)

\* create_safe_context: up to 10 characters before and after, never the match.
ContextLen == 10

Min(a, b) == IF a < b THEN a ELSE b
Max(a, b) == IF a > b THEN a ELSE b

create_safe_context(line, start, end) ==
    LET context_start == Max(start - ContextLen, 0)
        context_end == Min(Len(line), end + ContextLen)
    IN SubSeq(line, context_start + 1, start) \o <<"[REDACTED]">>
          \o SubSeq(line, end + 1, context_end)

\* find_matches_in_content: the matches of one pattern, line by line.
RECURSIVE MatchesFromLine(_, _, _)
MatchesFromLine(lines, id, n) ==
    IF n > Len(lines) THEN <<>>
    ELSE LET found == FindIter(PatternText(id), lines[n], 0)
         IN [k \in 1..Len(found) |->
                [pattern_id |-> id, line_number |-> n,
                 start |-> found[k].start, end |-> found[k].end,
                 context |-> create_safe_context(lines[n], found[k].start,
                                                 found[k].end)]]
            \o MatchesFromLine(lines, id, n + 1)

find_matches_in_content(c, id) == MatchesFromLine(Lines(c), id, 1)

is_pattern_ignored(ign, id) == id \in ign

\* scan_for_secrets: the patterns in the map's order, the ignored ones skipped.
RECURSIVE ScanFrom(_, _, _, _)
ScanFrom(c, ign, order, k) ==
    IF k > Len(order) THEN <<>>
    ELSE (IF is_pattern_ignored(ign, order[k]) THEN <<>>
          ELSE find_matches_in_content(c, order[k]))
         \o ScanFrom(c, ign, order, k + 1)

scan_for_secrets(c, ign, order) == ScanFrom(c, ign, order, 1)

\* A fault of has_secrets: a single match let through.
has_secrets_several(c, ign, order) == Len(scan_for_secrets(c, ign, order)) > 1

has_secrets(c, ign, order) == scan_for_secrets(c, ign, order) # <<>>

\* The comparator of sorted_matches.sort_by: later line first, then later
\* column first. TRUE when a is to stay before b (a >= b in that order).
NotAfter(a, b) ==
    \/ a.line_number > b.line_number
    \/ a.line_number = b.line_number /\ a.start >= b.start

\* slice::sort_by is stable: equal elements keep their order.
RECURSIVE InsertSorted(_, _)
InsertSorted(sorted, m) ==
    IF sorted = <<>> THEN <<m>>
    ELSE IF NotAfter(sorted[1], m)
    THEN <<sorted[1]>> \o InsertSorted(Tail(sorted), m)
    ELSE <<m>> \o sorted

RECURSIVE SortMatches(_, _)
SortMatches(ms, k) ==
    IF k = 0 THEN <<>>
    ELSE InsertSorted(SortMatches(ms, k - 1), ms[k])

\* Sum of l.len() + 1 over the first n lines of the original content.
RECURSIVE LineStart(_, _)
LineStart(lines, n) ==
    IF n = 0 THEN 0 ELSE LineStart(lines, n - 1) + Len(lines[n]) + 1

\* One turn of the replacement loop on the content redacted so far;
\* String::replace_range panics when the range ends beyond the string.
ReplaceOne(acc, lines, m) ==
    IF acc.kind = "panic" \/ m.line_number > Len(lines) THEN acc
    ELSE LET line == lines[m.line_number]
         IN IF ~(m.start < Len(line) /\ m.end <= Len(line)) THEN acc
            ELSE LET redacted_line == Prefix(line, m.start)
                                         \o Marker(m.pattern_id)
                                         \o Suffix(line, m.end)
                     line_start == LineStart(lines, m.line_number - 1)
                     line_end == line_start + Len(line)
                 IN IF line_end > Len(acc.content)
                    THEN [kind |-> "panic", content |-> acc.content]
                    ELSE [kind |-> "ok",
                          content |-> Prefix(acc.content, line_start)
                                         \o redacted_line
                                         \o Suffix(acc.content, line_end)]

RECURSIVE ReplaceAll(_, _, _, _)
ReplaceAll(acc, lines, sorted, k) ==
    IF k > Len(sorted) THEN acc
    ELSE ReplaceAll(ReplaceOne(acc, lines, sorted[k]), lines, sorted, k + 1)

\* SecretRedactor::redact_content
redact_content(c, ign, order) ==
    LET matches == scan_for_secrets(c, ign, order)
    IN IF matches = <<>>
       THEN [kind |-> "ok", content |-> c, matches |-> matches,
             has_secrets |-> FALSE]
       ELSE LET sorted_matches == SortMatches(matches, Len(matches))
                done == ReplaceAll([kind |-> "ok", content |-> c], Lines(c),
                                   sorted_matches, 1)
            IN [kind |-> done.kind, content |-> done.content,
                matches |-> matches, has_secrets |-> TRUE]

\* regex.replace_all(text, "***"): the leftmost non-overlapping matches from
\* position i on, each replaced by the fixed marker.
RECURSIVE ReplaceAllFrom(_, _, _)
ReplaceAllFrom(text, pat, i) ==
    IF i > Len(text) THEN <<>>
    ELSE IF i + Len(pat) - 1 <= Len(text) /\ SubSeq(text, i, i + Len(pat) - 1) = pat
    THEN <<"***">> \o ReplaceAllFrom(text, pat, i + Len(pat))
    ELSE <<text[i]>> \o ReplaceAllFrom(text, pat, i + 1)

\* redact_string: every default pattern in the map's order, ignore list or not.
RECURSIVE RedactStringFrom(_, _, _)
RedactStringFrom(text, order, k) ==
    IF k > Len(order) THEN text
    ELSE RedactStringFrom(ReplaceAllFrom(text, PatternText(order[k]), 1), order, k + 1)

redact_string(text, order) == RedactStringFrom(text, order, 1)

\* redactor.redact_content(content, path)
RedactContent ==
    /\ out.op = "none"
    /\ out' = [op |-> "redact_content",
               r |-> redact_content(content, ignored, patOrder)]
    /\ UNCHANGED <<content, ignored, patOrder>>
    /\ UNCHANGED nonRedactVars

\* redactor.scan_for_secrets(content, path)
ScanForSecrets ==
    /\ out.op = "none"
    /\ out' = [op |-> "scan_for_secrets",
               r |-> scan_for_secrets(content, ignored, patOrder)]
    /\ UNCHANGED <<content, ignored, patOrder>>
    /\ UNCHANGED nonRedactVars

\* redactor.has_secrets(content, path)
HasSecrets ==
    /\ out.op = "none"
    /\ out' = [op |-> "has_secrets",
               r |-> has_secrets(content, ignored, patOrder)]
    /\ UNCHANGED <<content, ignored, patOrder>>
    /\ UNCHANGED nonRedactVars

\* redactor.redact_string(content)
RedactString ==
    /\ out.op = "none"
    /\ out' = [op |-> "redact_string", r |-> redact_string(content, patOrder)]
    /\ UNCHANGED <<content, ignored, patOrder>>
    /\ UNCHANGED nonRedactVars

InitRedact ==
    /\ content \in StringsUpTo(MaxLen)
    /\ ignored \in SUBSET PatternIds
    /\ patOrder \in PatternOrders
    /\ out = [op |-> "none"]
    /\ LockIdle
    /\ StoreIdle
    /\ OrchIdle
    /\ CanonIdle
    /\ LlmIdle

NextRedact == RedactContent \/ ScanForSecrets \/ HasSecrets \/ RedactString

SpecRedact == InitRedact /\ [][NextRedact]_vars

\* ------------------------------------------------------------------------
\* Claims on the redactor (checked under SpecRedact)
\* ------------------------------------------------------------------------

\* The patterns that are enabled: the default ones not on the ignore list.
EnabledPatterns == PatternIds \ ignored

\* Whether the text of pattern id starts at position i (from 1) of s.
MatchesAt(s, i, id) ==
    /\ i + Len(PatternText(id)) - 1 <= Len(s)
    /\ SubSeq(s, i, i + Len(PatternText(id)) - 1) = PatternText(id)

\* s with every match of an enabled pattern replaced by the pattern's
\* marker and every other character kept, read from position i on.
RECURSIVE EveryMatchReplaced(_, _)
EveryMatchReplaced(s, i) ==
    IF i > Len(s) THEN <<>>
    ELSE IF \E id \in EnabledPatterns : MatchesAt(s, i, id)
    THEN LET id == CHOOSE x \in EnabledPatterns : MatchesAt(s, i, x)
         IN Marker(id) \o EveryMatchReplaced(s, i + Len(PatternText(id)))
    ELSE <<s[i]>> \o EveryMatchReplaced(s, i + 1)

\* s holds a match of an enabled pattern.
HoldsSecret(s) ==
    \E i \in 1..Len(s) : \E id \in EnabledPatterns : MatchesAt(s, i, id)

\* C5: for every content, redact_content returns a content in which each
\* match reported by scan is replaced by [REDACTED:<pattern_id>], all text
\* outside the matches is kept, and no match of an enabled pattern is left.
C5_RedactContentReplacesEveryMatch ==
    out.op = "redact_content" =>
        /\ out.r.kind = "ok"
        /\ out.r.content = EveryMatchReplaced(content, 1)
        /\ ~HoldsSecret(out.r.content)

\* C11: acquire with force = true succeeds whatever the state of the lock
\* (free, held by a live process, stale), and afterwards the lock file
\* names the caller as owner.
C11_ForceAlwaysAcquires ==
    [][\A p \in Procs :
         (AcquireReturns(p) /\ force[p]) =>
            /\ res'[p].kind = "ok"
            /\ held'[p]
            /\ lockFile' = [pid |-> p, created_at |-> now]]_vars

\* C11 witness: a forced acquire has taken the lock over from a live holder.
C11_Witness ==
    \E p \in Procs : \E q \in Procs \ {p} :
        /\ alive[p] /\ held[p]
        /\ alive[q] /\ held[q] /\ force[q]
        /\ res[q].kind = "ok"
        /\ lockFile.pid = q

\* C12: a process that acquired the lock releases it whichever way its
\* manager ends (completion, error return such as a failure of
\* ensure_directory_structure right after the acquisition, panic): when a
\* live holder is back without its manager the lock is free, and an acquire
\* without force made then succeeds.
C12_LockReleasedOnEveryExit ==
    [][\A p \in Procs :
         (alive[p] /\ alive'[p] /\ held[p] /\ pc'[p] = "idle") =>
            /\ ~held'[p]
            /\ lockFile' = NoLock
            /\ \A q \in Procs : (FileLockAcquire(q, FALSE).kind = "ok")']_vars

\* C12 witness: ensure_directory_structure failed for a holder, and after
\* that another process acquired the lock without force.
C12_Witness ==
    \E p \in Procs : \E q \in Procs \ {p} :
        /\ res[p].kind = "io" /\ pc[p] = "idle" /\ ~held[p]
        /\ held[q] /\ ~force[q] /\ res[q].kind = "ok"
        /\ lockFile.pid = q

\* C13: the read-only construction never acquires the lock: it can be made
\* in every state of the lock, it succeeds, and it leaves the lock file,
\* the holders and the spec directory tree as they were.
C13_ReadonlyTakesNoLock ==
    /\ [](\A p \in Procs : (alive[p] /\ pc[p] = "idle") => ENABLED CallReadonly(p))
    /\ [][\A p \in Procs :
            (pc[p] = "idle" /\ pc'[p] = "readonly") =>
               /\ res'[p].kind = "ok"
               /\ lockFile' = lockFile
               /\ held' = held
               /\ dirs' = dirs
               /\ artifactsDir' = artifactsDir
               /\ partialDir' = partialDir]_vars

\* C13 witness: a read-only manager was built while another process held
\* the lock, and the holder still owns it.
C13_Witness ==
    \E p \in Procs : \E q \in Procs \ {p} :
        /\ pc[p] = "readonly" /\ res[p].kind = "ok" /\ ~held[p]
        /\ alive[q] /\ held[q] /\ lockFile.pid = q

(***************************************************************************)
(* The artifact store: ArtifactManager of src/src/artifact.rs, driven by   *)
(* the process that holds the lock.  A call that touches the file system    *)
(* more than once is one action per file-system operation, so that the      *)
(* states in between are states another process can read.                   *)
(***************************************************************************)

\* PhaseId, in pipeline order.
PhaseOrder == <<"requirements", "design", "tasks", "review", "fixup", "final">>

Phases == {PhaseOrder[i] : i \in 1..Len(PhaseOrder)}

\* The phases the store is driven with.
StorePhases == {"requirements", "design"}

\* ArtifactType (Context lives in another directory and is left out).
ArtifactTypes == {"Markdown", "CoreYaml", "Partial"}

extension(artifact_type) ==
    CASE artifact_type = "Markdown" -> "md"
      [] artifact_type = "CoreYaml" -> "core.yaml"
      [] artifact_type = "Partial" -> "partial.md"

get_phase_number(phase) ==
    CASE phase = "requirements" -> 0
      [] phase = "design" -> 10
      [] phase = "tasks" -> 20
      [] phase = "review" -> 30
      [] phase = "fixup" -> 40
      [] phase = "final" -> 50

DigitText == <<"0", "1", "2", "3", "4", "5", "6", "7", "8", "9">>

\* format!("{n:02}") for n < 100
TwoDigits(n) == DigitText[(n \div 10) + 1] \o DigitText[(n % 10) + 1]

get_phase_filename(phase, artifact_type) ==
    TwoDigits(get_phase_number(phase)) \o "-" \o phase \o "." \o extension(artifact_type)

\* The file names of artifacts/ in ascending byte order, the order of
\* Vec<String>::sort.
NamesInByteOrder ==
    <<"00-requirements.core.yaml", "00-requirements.md", "00-requirements.partial.md",
      "10-design.core.yaml", "10-design.md", "10-design.partial.md",
      "20-tasks.core.yaml", "20-tasks.md", "20-tasks.partial.md",
      "30-review.core.yaml", "30-review.md", "30-review.partial.md",
      "40-fixup.core.yaml", "40-fixup.md", "40-fixup.partial.md",
      "50-final.core.yaml", "50-final.md", "50-final.partial.md">>

\* list_artifacts: nothing when artifacts/ does not exist, else the name of
\* every file of artifacts/, sorted.
list_artifacts(artifacts_exists, dir) ==
    IF ~artifacts_exists THEN <<>>
    ELSE SelectSeq(NamesInByteOrder, LAMBDA n : n \in DOMAIN dir)

\* Position of a name in ascending byte order.
ByteRank(name) == CHOOSE i \in 1..Len(NamesInByteOrder) : NamesInByteOrder[i] = name

\* content.replace("\r\n", "\n").replace('\r', "\n")
RECURSIVE ReplaceCRLF(_)
ReplaceCRLF(c) ==
    IF c = <<>> THEN <<>>
    ELSE IF Len(c) >= 2 /\ c[1] = "CR" /\ c[2] = "LF"
         THEN <<"LF">> \o ReplaceCRLF(SubSeq(c, 3, Len(c)))
         ELSE <<c[1]>> \o ReplaceCRLF(Tail(c))

ReplaceCR(c) == [i \in 1..Len(c) |-> IF c[i] = "CR" THEN "LF" ELSE c[i]]

normalize_line_endings(c) == ReplaceCR(ReplaceCRLF(c))

\* The contents the store is driven with: empty, plain, and with a CRLF.
ContentSamples == {<<>>, <<"a">>, <<"a", "CR", "LF">>}

\* Files of a directory.
Exists(dir, name) == name \in DOMAIN dir

FileWrite(dir, name, c) ==
    [n \in DOMAIN dir \cup {name} |-> IF n = name THEN c ELSE dir[n]]

FileRemove(dir, name) == [n \in DOMAIN dir \ {name} |-> dir[n]]

\* write_file_atomic: temp file, fsync, rename into place.
write_file_atomic(dir, name, c) == FileWrite(dir, name, c)

Returns(of, ok) == [of |-> of, ok |-> ok]

\* Ok of a staging call, with the name it wrote and the content it was given.
Stored(of, name, c) == [of |-> of, ok |-> TRUE, name |-> name, content |-> c]

\* Err of a promotion that found nothing staged under its name.
Refused(of, name) == [of |-> of, ok |-> FALSE, err |-> "does not exist", name |-> name]

CanCall == op = NoCall /\ nOps < MaxOps

\* What a reader finds under a name: <<content>>, or <<>> when there is no file.
Lookup(dir, name) == IF Exists(dir, name) THEN <<dir[name]>> ELSE <<>>

store_artifact(dir, name, c) == write_file_atomic(dir, name, c)

store_phase_artifact(dir, phase, c, artifact_type) ==
    store_artifact(dir, get_phase_filename(phase, artifact_type), normalize_line_endings(c))

\* A fault of store_partial_artifact: the content stored as it is given.
store_partial_artifact_raw(dir, phase, c) ==
    store_artifact(dir, get_phase_filename(phase, "Partial"), c)

store_partial_artifact(dir, phase, c) == store_phase_artifact(dir, phase, c, "Partial")

\* The names run_phase stages under: the final names of a phase's two outputs.
StagedNames ==
    {get_phase_filename(p, t) : p \in StorePhases, t \in {"Markdown", "CoreYaml"}}

StorePhaseArtifact ==
    \E phase \in StorePhases, c \in ContentSamples, t \in {"Markdown", "CoreYaml"} :
        /\ CanCall
        /\ artifactsDir' = store_phase_artifact(artifactsDir, phase, c, t)
        /\ ret' = Returns("store_phase_artifact", TRUE)
        /\ nOps' = nOps + 1
        /\ UNCHANGED <<partialDir, partialExists, op>>
        /\ UNCHANGED nonStoreVars

StorePartialArtifact ==
    \E phase \in StorePhases, c \in ContentSamples :
        /\ CanCall
        /\ artifactsDir' = store_partial_artifact(artifactsDir, phase, c)
        /\ ret' = Stored("store_partial_artifact", get_phase_filename(phase, "Partial"), c)
        /\ nOps' = nOps + 1
        /\ UNCHANGED <<partialDir, partialExists, op>>
        /\ UNCHANGED nonStoreVars

\* ensure_dir_all(.partial), then an atomic write of the content as it is.
StorePartialStagedArtifact ==
    \E name \in StagedNames, c \in ContentSamples :
        /\ CanCall
        /\ partialExists' = TRUE
        /\ partialDir' = write_file_atomic(partialDir, name, c)
        /\ ret' = Stored("store_partial_staged_artifact", name, c)
        /\ nOps' = nOps + 1
        /\ UNCHANGED <<artifactsDir, op>>
        /\ UNCHANGED nonStoreVars

\* What remove_stale_partial_dir returns, and whether it printed its warning.
Purged(ok, warned) == [of |-> "remove_stale_partial_dir", ok |-> ok, warned |-> warned]

\* A fault of remove_stale_partial_dir: a removal that fails is an error.
RemoveStalePartialDir_Propagates ==
    /\ CanCall
    /\ \/ /\ partialExists
          /\ partialExists' = FALSE
          /\ partialDir' = EmptyDir
       \/ UNCHANGED <<partialExists, partialDir>>
    /\ ret' = Purged(~partialExists', partialExists')
    /\ nOps' = nOps + 1
    /\ UNCHANGED <<artifactsDir, op>>
    /\ UNCHANGED nonStoreVars

\* remove_dir_all either removes the directory with all it holds or fails;
\* the failure is logged and the call returns Ok all the same. A directory
\* that is still there after the call is one whose removal failed.
RemoveStalePartialDir ==
    /\ CanCall
    /\ \/ /\ partialExists
          /\ partialExists' = FALSE
          /\ partialDir' = EmptyDir
       \/ UNCHANGED <<partialExists, partialDir>>
    /\ ret' = Purged(TRUE, partialExists')
    /\ nOps' = nOps + 1
    /\ UNCHANGED <<artifactsDir, op>>
    /\ UNCHANGED nonStoreVars

DeletePartialArtifact ==
    \E phase \in StorePhases :
        /\ CanCall
        /\ artifactsDir' = FileRemove(artifactsDir, get_phase_filename(phase, "Partial"))
        /\ ret' = Returns("delete_partial_artifact", TRUE)
        /\ nOps' = nOps + 1
        /\ UNCHANGED <<partialDir, partialExists, op>>
        /\ UNCHANGED nonStoreVars

\* A promotion in progress: the two paths it works on and what was under
\* them when it was called.
Promotion(of, step, staged_in, staged_name, final_name, found) ==
    [name |-> of, step |-> step, staged_in |-> staged_in,
     staged_name |-> staged_name, final_name |-> final_name,
     content |-> found, pre |-> [staged |-> found, final |-> Lookup(artifactsDir, final_name)]]

\* A fault of promote_staged_to_final: with nothing staged and the final
\* artifact in place the call returns Ok.
PromoteStagedCall_Idempotent ==
    \E name \in StagedNames :
        /\ CanCall
        /\ nOps' = nOps + 1
        /\ IF ~Exists(partialDir, name)
           THEN /\ ret' = IF Exists(artifactsDir, name)
                          THEN Returns("promote_staged_to_final", TRUE)
                          ELSE Refused("promote_staged_to_final", name)
                /\ op' = op
           ELSE /\ op' = Promotion("promote_staged_to_final", "rename", ".partial",
                                   name, name, Lookup(partialDir, name))
                /\ ret' = ret
        /\ UNCHANGED <<artifactsDir, partialDir, partialExists>>
        /\ UNCHANGED nonStoreVars

\* promote_staged_to_final up to its rename: the existence check.
PromoteStagedCall ==
    \E name \in StagedNames :
        /\ CanCall
        /\ nOps' = nOps + 1
        /\ IF ~Exists(partialDir, name)
           THEN /\ ret' = Refused("promote_staged_to_final", name)
                /\ op' = op
           ELSE /\ op' = Promotion("promote_staged_to_final", "rename", ".partial",
                                   name, name, Lookup(partialDir, name))
                /\ ret' = ret
        /\ UNCHANGED <<artifactsDir, partialDir, partialExists>>
        /\ UNCHANGED nonStoreVars

\* fs::rename(.partial/name, artifacts/name): one step of the file system.
PromoteStagedRename ==
    /\ op.name = "promote_staged_to_final"
    /\ artifactsDir' = FileWrite(artifactsDir, op.final_name, partialDir[op.staged_name])
    /\ partialDir' = FileRemove(partialDir, op.staged_name)
    /\ ret' = [of |-> op.name, ok |-> TRUE, call |-> op]
    /\ op' = NoCall
    /\ UNCHANGED <<partialExists, nOps>>
    /\ UNCHANGED nonStoreVars

\* promote_partial_to_final up to its write: the existence check and the read.
PromotePartialCall ==
    \E phase \in StorePhases, t \in ArtifactTypes :
        LET partial_name == get_phase_filename(phase, "Partial")
            final_name == get_phase_filename(phase, t)
        IN  /\ CanCall
            /\ nOps' = nOps + 1
            /\ IF ~Exists(artifactsDir, partial_name)
               THEN /\ ret' = Refused("promote_partial_to_final", partial_name)
                    /\ op' = op
               ELSE /\ op' = Promotion("promote_partial_to_final", "write", "artifacts",
                                       partial_name, final_name,
                                       Lookup(artifactsDir, partial_name))
                    /\ ret' = ret
            /\ UNCHANGED <<artifactsDir, partialDir, partialExists>>
            /\ UNCHANGED nonStoreVars

\* write_file_atomic(final_path, content)
PromotePartialWrite ==
    /\ op.name = "promote_partial_to_final"
    /\ op.step = "write"
    /\ artifactsDir' = write_file_atomic(artifactsDir, op.final_name, op.content[1])
    /\ op' = [op EXCEPT !.step = "remove"]
    /\ UNCHANGED <<partialDir, partialExists, ret, nOps>>
    /\ UNCHANGED nonStoreVars

\* fs::remove_file(partial_path), which the file system may refuse.
PromotePartialRemove ==
    /\ op.name = "promote_partial_to_final"
    /\ op.step = "remove"
    /\ \/ /\ artifactsDir' = FileRemove(artifactsDir, op.staged_name)
          /\ ret' = [of |-> op.name, ok |-> TRUE, call |-> op]
       \/ /\ artifactsDir' = artifactsDir
          /\ ret' = [of |-> op.name, ok |-> FALSE, call |-> op,
                     err |-> "Failed to delete partial artifact after promotion"]
    /\ op' = NoCall
    /\ UNCHANGED <<partialDir, partialExists, nOps>>
    /\ UNCHANGED nonStoreVars

InitStore ==
    /\ StoreIdle
    /\ LockIdle
    /\ RedactIdle
    /\ OrchIdle
    /\ CanonIdle
    /\ LlmIdle

NextStore ==
    \/ StorePhaseArtifact
    \/ StorePartialArtifact
    \/ StorePartialStagedArtifact
    \/ RemoveStalePartialDir
    \/ DeletePartialArtifact
    \/ PromoteStagedCall
    \/ PromoteStagedRename
    \/ PromotePartialCall
    \/ PromotePartialWrite
    \/ PromotePartialRemove

SpecStore == InitStore /\ [][NextStore]_vars

\* What a reader finds under the two paths of a promotion.
Seen(call) ==
    [staged |-> Lookup(IF call.staged_in = ".partial" THEN partialDir ELSE artifactsDir,
                       call.staged_name),
     final |-> Lookup(artifactsDir, call.final_name)]

\* The state a promotion promises to leave: the staged copy gone, its content final.
Promoted(call) == [staged |-> <<>>, final |-> call.pre.staged]

\* C3: while promote_staged_to_final or promote_partial_to_final runs a
\* reader sees the state the promotion was called in or the promoted state
\* (staged copy gone and its content final), never the final artifact written
\* with the staged copy still there; once the promotion has returned Ok the
\* reader sees the promoted state.
C3_PromotionIsAtomic ==
    /\ op.name \in {"promote_staged_to_final", "promote_partial_to_final"} =>
           Seen(op) \in {op.pre, Promoted(op)}
    /\ (op = NoCall /\ ret.of \in {"promote_staged_to_final", "promote_partial_to_final"}
           /\ ret.ok) =>
           Seen(ret.call) = Promoted(ret.call)

(***************************************************************************)
(* Managers of several processes on one spec: the lock manager's actions    *)
(* together with a store call made through whatever manager a process has,  *)
(* built by new_with_force or by new_readonly.                              *)
(***************************************************************************)

\* p calls store_artifact on its manager. The method takes &self and does
\* not look at _lock; the write fails when artifacts/ does not exist.
StoreArtifactBy(p) ==
    \E c \in ContentSamples :
        LET name == get_phase_filename("requirements", "Markdown")
        IN  /\ alive[p] /\ pc[p] \in {"ready", "readonly"}
            /\ IF "artifacts" \in dirs
               THEN /\ artifactsDir' = store_artifact(artifactsDir, name, c)
                    /\ ret' = [of |-> "store_artifact", ok |-> TRUE, by |-> p]
               ELSE /\ artifactsDir' = artifactsDir
                    /\ ret' = [of |-> "store_artifact", ok |-> FALSE, by |-> p]
            /\ UNCHANGED <<partialDir, partialExists, op, nOps>>
            /\ UNCHANGED nonStoreVars

\* Who may write does not depend on the clock or on a process being
\* killed: the managers are built and dropped, and the store is called.
NextAccess ==
    \/ \E p \in Procs, f \in BOOLEAN : Call(p, f)
    \/ \E p \in Procs : EnsureSpecDirs(p)
    \/ \E p \in Procs : Acquire(p)
    \/ \E p \in Procs : EnsureDirectoryStructure(p)
    \/ \E p \in Procs : Drop(p)
    \/ \E p \in Procs : CallReadonly(p)
    \/ \E p \in Procs : DropReadonly(p)
    \/ \E p \in Procs : StoreArtifactBy(p)

SpecAccess == InitLock /\ [][NextAccess]_vars

\* C14: every change of the staging directory or of the final artifacts is
\* made by a process that holds the lock at that moment; a manager built on
\* the read-only path, which holds no lock, never changes them.
C14_OnlyLockHolderWrites ==
    [][(artifactsDir' # artifactsDir \/ partialDir' # partialDir) =>
          held[ret'.by]]_vars

(***************************************************************************)
(* The phase orchestrator: OrchestratorHandle of                           *)
(* src/src/orchestrator/handle.rs and the LLM helpers of llm.rs.  One       *)
(* process holds the lock and makes run_phase calls one after the other;    *)
(* an attempt is one action per step of run_phase.                          *)
(***************************************************************************)

\* The phases a phase depends on, after the workflow
\* None -> Requirements -> Design -> Tasks -> {Review | Final} -> {Fixup | Final}.
dependencies(phase) ==
    CASE phase = "requirements" -> {}
      [] phase = "design" -> {"requirements"}
      [] phase = "tasks" -> {"design"}
      [] phase = "review" -> {"tasks"}
      [] phase = "fixup" -> {"review"}
      [] phase = "final" -> {"tasks"}

\* A receipt records a success when its exit code is 0.
has_successful_receipt(phase) ==
    \E i \in 1..Len(receipts) : receipts[i].phase = phase /\ receipts[i].exit_code = 0

can_resume_from_phase(phase) ==
    \A d \in dependencies(phase) : has_successful_receipt(d)

\* A fault of can_run_phase: the prerequisite's artifacts taken for its success.
can_run_phase_by_artifacts(phase) ==
    \A d \in dependencies(phase) :
        /\ Exists(artifactsDir, get_phase_filename(d, "Markdown"))
        /\ Exists(artifactsDir, get_phase_filename(d, "CoreYaml"))

\* OrchestratorHandle::can_run_phase
can_run_phase(phase) == can_resume_from_phase(phase)

\* resume_from_phase: the transition is validated before anything is executed.
resume_from_phase(phase) ==
    IF can_resume_from_phase(phase) THEN "execute" ELSE "PhaseDependencyError"

\* A fault of run_phase: the phase executed without the validation.
run_phase_unchecked(phase) == "execute"

\* OrchestratorHandle::run_phase
run_phase(phase) == resume_from_phase(phase)

\* A fault of phase_completed: one of the two variants is enough.
phase_completed_either(phase) ==
    \/ Exists(artifactsDir, get_phase_filename(phase, "Markdown"))
    \/ Exists(artifactsDir, get_phase_filename(phase, "CoreYaml"))

\* ArtifactManager::phase_completed
phase_completed(phase) ==
    /\ Exists(artifactsDir, get_phase_filename(phase, "Markdown"))
    /\ Exists(artifactsDir, get_phase_filename(phase, "CoreYaml"))

\* A fault of redact_user_string: its fallback, the text returned as it is.
redact_user_string_fallback(text) == text

\* redact_user_string: redact_string of a fresh default redactor.
redact_user_string(text) == redact_string(text, patOrder)

\* create_secret_detected_error: pattern and place of the first match.
create_secret_detected_error(matches) ==
    IF matches = <<>>
    THEN [kind |-> "SecretDetected", pattern |-> "unknown", location |-> <<>>]
    ELSE [kind |-> "SecretDetected", pattern |-> matches[1].pattern_id,
          location |-> <<matches[1].line_number, matches[1].start>>]

\* The gate of run_phase, step 3: under the blocking policy a packet with a
\* secret is refused, under the redacting policy the packet is redacted.
redaction_gate(packet) ==
    IF policy = "block"
    THEN IF has_secrets(packet, ignored, patOrder)
         THEN create_secret_detected_error(scan_for_secrets(packet, ignored, patOrder))
         ELSE [kind |-> "ok", prompt |-> packet]
    ELSE LET r == redact_content(packet, ignored, patOrder)
         IN IF r.kind = "panic" THEN [kind |-> "panic"]
            ELSE [kind |-> "ok", prompt |-> r.content]

\* Digits of u64::MAX, 18446744073709551615.
U64MaxDigits ==
    <<"1", "8", "4", "4", "6", "7", "4", "4", "0", "7",
      "3", "7", "0", "9", "5", "5", "1", "6", "1", "5">>

Digits == {"0", "1", "2", "3", "4", "5", "6", "7", "8", "9"}

\* char::to_digit(10)
DigitValue(c) == CHOOSE d \in 0..9 : DigitText[d + 1] = c

\* The numeral without its leading zeros.
RECURSIVE StripZeros(_)
StripZeros(ds) ==
    IF ds # <<>> /\ ds[1] = "0" THEN StripZeros(Tail(ds)) ELSE ds

\* Lexicographic order of two numerals of the same length.
RECURSIVE NumeralGreater(_, _)
NumeralGreater(a, b) ==
    IF a = <<>> THEN FALSE
    ELSE IF a[1] # b[1] THEN DigitValue(a[1]) > DigitValue(b[1])
    ELSE NumeralGreater(Tail(a), Tail(b))

\* checked_mul / checked_add of the parsing loop: the numeral is above
\* u64::MAX.
OverflowsU64(ds) ==
    LET n == StripZeros(ds)
    IN \/ Len(n) > Len(U64MaxDigits)
       \/ Len(n) = Len(U64MaxDigits) /\ NumeralGreater(n, U64MaxDigits)

\* result = result * 10 + digit, over the digits read so far.
RECURSIVE Accumulate(_, _)
Accumulate(ds, k) ==
    IF k = 0 THEN 0 ELSE Accumulate(ds, k - 1) * 10 + DigitValue(ds[k])

\* str::parse::<u64>: an empty text and a lone sign are errors, a leading
\* "+" is skipped, a "-" is no digit of an unsigned type, every other
\* character must be a decimal digit, and the value must fit 64 bits.
ParseU64(s) ==
    IF s = <<>> \/ s = <<"+">> \/ s = <<"-">> THEN [ok |-> FALSE, value |-> 0]
    ELSE LET ds == IF s[1] = "+" THEN Tail(s) ELSE s
         IN IF (\E i \in 1..Len(ds) : ds[i] \notin Digits) \/ OverflowsU64(ds)
            THEN [ok |-> FALSE, value |-> 0]
            ELSE [ok |-> TRUE, value |-> Accumulate(ds, Len(ds))]

DefaultTimeoutSecs == 600

\* A fault of build_llm_invocation: the configured timeout not read.
build_llm_invocation_default(phase_id, prompt, cfg) ==
    [spec_id |-> "spec", phase |-> phase_id,
     model |-> IF "model" \in DOMAIN cfg THEN cfg["model"] ELSE "haiku",
     timeout |-> DefaultTimeoutSecs,
     messages |-> <<[role |-> "user", content |-> prompt]>>]

\* build_llm_invocation: the model and the timeout of the configuration or
\* their defaults, and one user message with the prompt.
build_llm_invocation(phase_id, prompt, cfg) ==
    LET parsed == IF "phase_timeout" \in DOMAIN cfg
                  THEN ParseU64(cfg["phase_timeout"])
                  ELSE [ok |-> FALSE, value |-> 0]
    IN [spec_id |-> "spec", phase |-> phase_id,
        model |-> IF "model" \in DOMAIN cfg THEN cfg["model"] ELSE "haiku",
        timeout |-> IF parsed.ok THEN parsed.value ELSE DefaultTimeoutSecs,
        messages |-> <<[role |-> "user", content |-> prompt]>>]

\* A fault of run_llm_invocation: the backend's error swallowed.
run_llm_invocation_swallow(o) ==
    [ok |-> TRUE, response |-> o.response, exit_code |-> 0,
     stderr_tail |-> o.stderr, error |-> "none", reason |-> <<>>]

\* run_llm_invocation after backend.invoke has answered o: an error of the
\* backend is returned as it is, a result is unpacked with exit code 0 and
\* the stderr the backend reported.
run_llm_invocation(o) ==
    IF o.kind = "ok"
    THEN [ok |-> TRUE, response |-> o.response, exit_code |-> 0,
          stderr_tail |-> o.stderr, error |-> "none", reason |-> <<>>]
    ELSE [ok |-> FALSE, response |-> <<>>, exit_code |-> 1,
          stderr_tail |-> o.stderr, error |-> o.kind, reason |-> o.stderr]

\* The packets run_phase is driven with: clean, one secret, two secrets on
\* one line, two patterns on one line.
PacketSamples == {<<"a">>, <<"a", "K">>, <<"K", "K">>, <<"K", "g", "g", "g">>}

\* What the backend may answer: a result, a non-zero exit or a timeout, with
\* the output and the stderr it produced.
ResponseSamples == {<<>>, <<"a">>}
StderrSamples == {<<>>, <<"g", "g", "g", "K">>}
BackendOutcomes ==
    [kind : {"ok", "NonZeroExit"}, response : ResponseSamples, stderr : StderrSamples]
        \cup {[kind |-> "Timeout", response |-> <<>>, stderr |-> <<>>]}

\* A response the phase cannot use.
Malformed(response) == response = <<>>

\* The structured output derived from a response.
core_yaml(response) == <<"yaml">> \o response

\* Vec::sort_by on the path: the entries in ascending byte order of their
\* paths, by insertion.
RECURSIVE InsertByPath(_, _)
InsertByPath(sorted, path) ==
    IF sorted = <<>> THEN <<path>>
    ELSE IF ByteRank(sorted[1]) <= ByteRank(path)
    THEN <<sorted[1]>> \o InsertByPath(Tail(sorted), path)
    ELSE <<path>> \o sorted

RECURSIVE SortByPath(_)
SortByPath(paths) ==
    IF paths = <<>> THEN <<>>
    ELSE InsertByPath(SortByPath(SubSeq(paths, 1, Len(paths) - 1)), paths[Len(paths)])

\* The files a phase's packet is built from, in the order they are added:
\* the two artifacts of each phase it depends on, the markdown one first.
packet_files(phase) ==
    IF dependencies(phase) = {} THEN <<>>
    ELSE LET d == CHOOSE x \in dependencies(phase) : TRUE
         IN <<get_phase_filename(d, "Markdown"), get_phase_filename(d, "CoreYaml")>>

\* A fault of the receipt: the arrays left in the order they were produced.
Receipt_Unsorted(phase, exit_code, error_kind, error_reason, stderr_tail, outputs) ==
    [phase |-> phase, exit_code |-> exit_code, error_kind |-> error_kind,
     error_reason |-> redact_user_string(error_reason),
     stderr_tail |-> redact_user_string(stderr_tail), outputs |-> outputs,
     packet_files |-> packet_files(phase)]

\* The receipt of an attempt: its texts redacted, its arrays sorted by path.
Receipt(phase, exit_code, error_kind, error_reason, stderr_tail, outputs) ==
    [phase |-> phase, exit_code |-> exit_code, error_kind |-> error_kind,
     error_reason |-> redact_user_string(error_reason),
     stderr_tail |-> redact_user_string(stderr_tail), outputs |-> SortByPath(outputs),
     packet_files |-> SortByPath(packet_files(phase))]

\* get_current_phase_state: the last phase of the pipeline with a successful
\* receipt, "none" when there is none.
current_phase ==
    LET succeeded == {i \in 1..Len(PhaseOrder) : has_successful_receipt(PhaseOrder[i])}
    IN IF succeeded = {} THEN "none"
       ELSE PhaseOrder[CHOOSE i \in succeeded : \A j \in succeeded : j <= i]

\* A fault of legal_next_phases: the current phase left out of the answer.
legal_next_phases_successors(current) ==
    CASE current = "none" -> <<"requirements">>
      [] current = "requirements" -> <<"design">>
      [] current = "design" -> <<"tasks">>
      [] current = "tasks" -> <<"review", "final">>
      [] current = "review" -> <<"fixup", "final">>
      [] current = "fixup" -> <<"final">>
      [] current = "final" -> <<>>

\* A fault of legal_next_phases: after Fixup the review is offered again.
legal_next_phases_back_to_review(current) ==
    CASE current = "none" -> <<"requirements">>
      [] current = "requirements" -> <<"requirements", "design">>
      [] current = "design" -> <<"design", "tasks">>
      [] current = "tasks" -> <<"tasks", "review", "final">>
      [] current = "review" -> <<"review", "fixup", "final">>
      [] current = "fixup" -> <<"fixup", "review", "final">>
      [] current = "final" -> <<"final">>

\* OrchestratorHandle::legal_next_phases, on the value of current_phase()
legal_next_phases(current) ==
    CASE current = "none" -> <<"requirements">>
      [] current = "requirements" -> <<"requirements", "design">>
      [] current = "design" -> <<"design", "tasks">>
      [] current = "tasks" -> <<"tasks", "review", "final">>
      [] current = "review" -> <<"review", "fixup", "final">>
      [] current = "fixup" -> <<"fixup", "final">>
      [] current = "final" -> <<"final">>

storeCallVars == <<op, ret, nOps>>

InAttempt == run.step \notin {"idle", "done"}

\* run_phase(phase): the transition is validated; an attempt begins when it
\* is legal, and the call returns the dependency error when it is not.
RunPhase ==
    \E phase \in Phases :
        /\ ~InAttempt
        /\ nAttempts < MaxAttempts
        /\ nAttempts' = nAttempts + 1
        /\ run' = IF run_phase(phase) = "execute"
                  THEN [NoRun EXCEPT !.phase = phase, !.step = "purge",
                                     !.before = artifactsDir]
                  ELSE [NoRun EXCEPT !.phase = phase, !.step = "done",
                                     !.result = "PhaseDependencyError",
                                     !.before = artifactsDir]
        /\ UNCHANGED <<policy, receipts, backendCalls>>
        /\ UNCHANGED <<artifactsDir, partialDir, partialExists, storeCallVars>>
        /\ UNCHANGED <<lockVars, redactVars, canonVars, llmVars>>

\* A fault of step 1: the staging directory is never removed.
PurgeStaleStaging_Skips ==
    /\ run.step = "purge"
    /\ run' = [run EXCEPT !.step = "packet"]
    /\ UNCHANGED <<partialExists, partialDir>>
    /\ UNCHANGED <<policy, receipts, backendCalls, nAttempts>>
    /\ UNCHANGED <<artifactsDir, storeCallVars>>
    /\ UNCHANGED <<lockVars, redactVars, canonVars, llmVars>>

\* Step 1: remove_stale_partial_dir, which succeeds or fails and is not
\* propagated; a directory that is still there after the call is one whose
\* removal failed, and the warning was printed.
PurgeStaleStaging ==
    /\ run.step = "purge"
    /\ \/ /\ partialExists
          /\ partialExists' = FALSE
          /\ partialDir' = EmptyDir
       \/ UNCHANGED <<partialExists, partialDir>>
    /\ run' = [run EXCEPT !.step = "packet", !.warned = partialExists']
    /\ UNCHANGED <<policy, receipts, backendCalls, nAttempts>>
    /\ UNCHANGED <<artifactsDir, storeCallVars>>
    /\ UNCHANGED <<lockVars, redactVars, canonVars, llmVars>>

\* Step 2: the outbound packet is built.
BuildPacket ==
    \E packet \in PacketSamples :
        /\ run.step = "packet"
        /\ run' = [run EXCEPT !.step = "gate", !.packet = packet]
        /\ UNCHANGED <<policy, receipts, backendCalls, nAttempts>>
        /\ UNCHANGED <<artifactsDir, partialDir, partialExists, storeCallVars>>
        /\ UNCHANGED <<lockVars, redactVars, canonVars, llmVars>>

\* Step 3: the gate. A refusal goes to the failure receipt; a panic of
\* redact_content ends the process.
Gate ==
    /\ run.step = "gate"
    /\ LET g == redaction_gate(run.packet)
       IN run' = CASE g.kind = "ok" ->
                        [run EXCEPT !.step = "invoke", !.prompt = g.prompt]
                   [] g.kind = "SecretDetected" ->
                        [run EXCEPT !.step = "fail", !.result = "SecretDetected",
                                    !.reason = <<"secret", g.pattern>>]
                   [] g.kind = "panic" ->
                        [run EXCEPT !.step = "done", !.result = "panic"]
    /\ UNCHANGED <<policy, receipts, backendCalls, nAttempts>>
    /\ UNCHANGED <<artifactsDir, partialDir, partialExists, storeCallVars>>
    /\ UNCHANGED <<lockVars, redactVars, canonVars, llmVars>>

\* A fault of step 4: a call that fails is made once more.
Invoke_Retry ==
    \E o \in BackendOutcomes :
        /\ run.step = "invoke"
        /\ LET call == build_llm_invocation(run.phase, run.prompt, config)
               r == run_llm_invocation(o)
           IN IF r.ok
              THEN /\ backendCalls' = Append(backendCalls, call)
                   /\ run' = [run EXCEPT !.step = "stage", !.outcome = o,
                                         !.invoked = @ + 1, !.response = r.response,
                                         !.stderr_tail = r.stderr_tail]
              ELSE /\ backendCalls' = backendCalls \o <<call, call>>
                   /\ run' = [run EXCEPT !.step = "fail", !.outcome = o,
                                         !.invoked = @ + 2, !.result = r.error,
                                         !.reason = r.reason,
                                         !.stderr_tail = r.stderr_tail]
        /\ UNCHANGED <<policy, receipts, nAttempts>>
        /\ UNCHANGED <<artifactsDir, partialDir, partialExists, storeCallVars>>
        /\ UNCHANGED <<lockVars, redactVars, canonVars, llmVars>>

\* Step 4: run_llm_invocation. The invocation is built and handed to the
\* backend once; the backend answers o.
Invoke ==
    \E o \in BackendOutcomes :
        /\ run.step = "invoke"
        /\ backendCalls' = Append(backendCalls, build_llm_invocation(run.phase, run.prompt, config))
        /\ LET r == run_llm_invocation(o)
           IN run' = IF r.ok
                     THEN [run EXCEPT !.step = "stage", !.outcome = o,
                                      !.invoked = @ + 1, !.response = r.response,
                                      !.stderr_tail = r.stderr_tail]
                     ELSE [run EXCEPT !.step = "fail", !.outcome = o,
                                      !.invoked = @ + 1, !.result = r.error,
                                      !.reason = r.reason,
                                      !.stderr_tail = r.stderr_tail]
        /\ UNCHANGED <<policy, receipts, nAttempts>>
        /\ UNCHANGED <<artifactsDir, partialDir, partialExists, storeCallVars>>
        /\ UNCHANGED <<lockVars, redactVars, canonVars, llmVars>>

\* A fault of the staging: a file left in the staging directory under the
\* same name is not overwritten, and the write fails.
StageResponse_NoOverwrite ==
    /\ run.step = "stage"
    /\ LET name == get_phase_filename(run.phase, "Markdown")
       IN IF Exists(partialDir, name)
          THEN /\ run' = [run EXCEPT !.step = "fail", !.result = "WriteFailure",
                                     !.reason = <<"exists">>]
               /\ UNCHANGED <<partialDir, partialExists>>
          ELSE /\ partialExists' = TRUE
               /\ partialDir' = write_file_atomic(partialDir, name, run.response)
               /\ run' = [run EXCEPT !.step = "postprocess",
                                     !.staged = FileWrite(@, name, run.response)]
    /\ UNCHANGED <<policy, receipts, backendCalls, nAttempts>>
    /\ UNCHANGED <<artifactsDir, storeCallVars>>
    /\ UNCHANGED <<lockVars, redactVars, canonVars, llmVars>>

\* Step 5, staging: store_partial_staged_artifact of the response, under the
\* name of the phase's markdown artifact.
StageResponse ==
    /\ run.step = "stage"
    /\ LET name == get_phase_filename(run.phase, "Markdown")
       IN /\ partialExists' = TRUE
          /\ partialDir' = write_file_atomic(partialDir, name, run.response)
          /\ run' = [run EXCEPT !.step = "postprocess",
                                !.staged = FileWrite(@, name, run.response)]
    /\ UNCHANGED <<policy, receipts, backendCalls, nAttempts>>
    /\ UNCHANGED <<artifactsDir, storeCallVars>>
    /\ UNCHANGED <<lockVars, redactVars, canonVars, llmVars>>

\* Step 5, the structured output: derived from the response and staged, or
\* the response is malformed and the attempt fails with what it has staged.
Postprocess ==
    /\ run.step = "postprocess"
    /\ IF Malformed(run.response)
       THEN /\ run' = [run EXCEPT !.step = "fail", !.result = "MalformedOutput",
                                  !.reason = <<"malformed">>]
            /\ UNCHANGED <<partialDir, partialExists>>
       ELSE LET name == get_phase_filename(run.phase, "CoreYaml")
            IN /\ partialExists' = TRUE
               /\ partialDir' = write_file_atomic(partialDir, name, core_yaml(run.response))
               /\ run' = [run EXCEPT !.step = "promote_md",
                                     !.staged = FileWrite(@, name, core_yaml(run.response))]
    /\ UNCHANGED <<policy, receipts, backendCalls, nAttempts>>
    /\ UNCHANGED <<artifactsDir, storeCallVars>>
    /\ UNCHANGED <<lockVars, redactVars, canonVars, llmVars>>

\* A fault of the promotion: the staged file copied, not renamed.
PromoteStaged_Copies ==
    /\ run.step \in {"promote_md", "promote_core"}
    /\ LET name == get_phase_filename(run.phase,
                      IF run.step = "promote_md" THEN "Markdown" ELSE "CoreYaml")
       IN IF ~Exists(partialDir, name)
          THEN /\ run' = [run EXCEPT !.step = "fail", !.result = "MissingStaged",
                                     !.reason = <<"missing">>]
               /\ UNCHANGED artifactsDir
          ELSE /\ artifactsDir' = FileWrite(artifactsDir, name, partialDir[name])
               /\ run' = [run EXCEPT !.step = IF run.step = "promote_md"
                                              THEN "promote_core" ELSE "receipt"]
    /\ UNCHANGED <<policy, receipts, backendCalls, nAttempts>>
    /\ UNCHANGED <<partialDir, partialExists, storeCallVars>>
    /\ UNCHANGED <<lockVars, redactVars, canonVars, llmVars>>

\* Step 5, promotion: promote_staged_to_final of the markdown artifact, then
\* of the structured one; each is one rename.
PromoteStaged ==
    /\ run.step \in {"promote_md", "promote_core"}
    /\ LET name == get_phase_filename(run.phase,
                      IF run.step = "promote_md" THEN "Markdown" ELSE "CoreYaml")
       IN IF ~Exists(partialDir, name)
          THEN /\ run' = [run EXCEPT !.step = "fail", !.result = "MissingStaged",
                                     !.reason = <<"missing">>]
               /\ UNCHANGED <<artifactsDir, partialDir>>
          ELSE /\ artifactsDir' = FileWrite(artifactsDir, name, partialDir[name])
               /\ partialDir' = FileRemove(partialDir, name)
               /\ run' = [run EXCEPT !.step = IF run.step = "promote_md"
                                              THEN "promote_core" ELSE "receipt"]
    /\ UNCHANGED <<policy, receipts, backendCalls, nAttempts>>
    /\ UNCHANGED <<partialExists, storeCallVars>>
    /\ UNCHANGED <<lockVars, redactVars, canonVars, llmVars>>

\* Step 5, the success receipt: exit code 0, the outputs handed over in the
\* order they were promoted.
EmitSuccessReceipt ==
    /\ run.step = "receipt"
    /\ receipts' = Append(receipts,
          Receipt(run.phase, 0, "none", <<>>, run.stderr_tail,
                  <<get_phase_filename(run.phase, "Markdown"),
                    get_phase_filename(run.phase, "CoreYaml")>>))
    /\ run' = [run EXCEPT !.step = "done", !.result = "ok"]
    /\ UNCHANGED <<policy, backendCalls, nAttempts>>
    /\ UNCHANGED <<artifactsDir, partialDir, partialExists, storeCallVars>>
    /\ UNCHANGED <<lockVars, redactVars, canonVars, llmVars>>

\* Step 6: the failure receipt, with a non-zero exit code and the error's
\* kind and reason; the error is returned.
EmitFailureReceipt ==
    /\ run.step = "fail"
    /\ receipts' = Append(receipts,
          Receipt(run.phase, 1, run.result, run.reason, run.stderr_tail, <<>>))
    /\ run' = [run EXCEPT !.step = "done"]
    /\ UNCHANGED <<policy, backendCalls, nAttempts>>
    /\ UNCHANGED <<artifactsDir, partialDir, partialExists, storeCallVars>>
    /\ UNCHANGED <<lockVars, redactVars, canonVars, llmVars>>

\* The process is killed in the middle of an attempt; what it held in
\* memory is lost.
Kill ==
    /\ InAttempt
    /\ run' = [NoRun EXCEPT !.phase = run.phase, !.step = "done",
                            !.result = "killed", !.before = run.before]
    /\ UNCHANGED <<policy, receipts, backendCalls, nAttempts>>
    /\ UNCHANGED <<artifactsDir, partialDir, partialExists, storeCallVars>>
    /\ UNCHANGED <<lockVars, redactVars, canonVars, llmVars>>

\* handle.legal_next_phases(), between two run_phase calls: the answer is
\* kept until the next run_phase.
LegalNextPhases ==
    /\ ~InAttempt
    /\ run' = [run EXCEPT !.planned = legal_next_phases(current_phase)]
    /\ UNCHANGED <<policy, receipts, backendCalls, nAttempts>>
    /\ UNCHANGED <<artifactsDir, partialDir, partialExists, storeCallVars>>
    /\ UNCHANGED <<lockVars, redactVars, canonVars, llmVars>>

Init ==
    /\ LockIdle
    /\ StoreIdle
    /\ content = <<>>
    /\ out = [op |-> "none"]
    /\ ignored \in SUBSET {"github_pat", "aws_secret_key"}
    /\ patOrder = <<"github_pat", "aws_secret_key", "bearer_token">>
    /\ policy \in {"block", "redact"}
    /\ run = NoRun
    /\ receipts = <<>>
    /\ backendCalls = <<>>
    /\ nAttempts = 0
    /\ CanonIdle
    /\ LlmIdle

Next ==
    \/ RunPhase
    \/ PurgeStaleStaging
    \/ BuildPacket
    \/ Gate
    \/ Invoke
    \/ StageResponse
    \/ Postprocess
    \/ PromoteStaged
    \/ EmitSuccessReceipt
    \/ EmitFailureReceipt
    \/ Kill
    \/ LegalNextPhases

Spec == Init /\ [][Next]_vars

\* ------------------------------------------------------------------------
\* Claims on the orchestrator (checked under Spec)
\* ------------------------------------------------------------------------

\* The backend failed the attempt: non-zero exit, timeout, or an output the
\* phase cannot use.
BackendFailed ==
    \/ run.outcome.kind \in {"NonZeroExit", "Timeout"}
    \/ run.outcome.kind = "ok" /\ Malformed(run.outcome.response)

\* C4: a run_phase that fails on the backend (error or non-zero exit,
\* timeout, malformed output) promotes nothing: from the backend's answer
\* on the final artifacts are those found when the attempt began, and once
\* it has returned, its result is the error and what it staged is still in
\* the staging directory.
C4_FailedRunPromotesNothing ==
    BackendFailed =>
        /\ artifactsDir = run.before
        /\ run.step = "done" =>
              /\ run.result \in {"NonZeroExit", "Timeout", "MalformedOutput"}
              /\ \A n \in DOMAIN run.staged : Lookup(partialDir, n) = <<run.staged[n]>>

\* C4 witness: with final artifacts of an earlier phase in place, an attempt
\* has staged a response, failed on it and returned.
C4_Witness ==
    /\ BackendFailed
    /\ run.step = "done"
    /\ run.result = "MalformedOutput"
    /\ run.staged # EmptyDir
    /\ run.before # EmptyDir

\* s holds a match of a default pattern, ignored or not.
HoldsDefaultSecret(s) ==
    \E i \in 1..Len(s) : \E id \in PatternIds : MatchesAt(s, i, id)

\* C6: what leaves the process has passed the gate: the invocation handed
\* to the backend carries one message, the gate's output for the packet
\* (the packet itself, free of enabled secrets, under the blocking policy;
\* the redacted packet under the redacting policy), and the stderr tail and
\* error reason of every receipt hold no match of a default pattern.
C6_NothingLeavesUngated ==
    /\ \A i \in 1..Len(backendCalls) :
          /\ Len(backendCalls[i].messages) = 1
          /\ policy = "block" => ~HoldsSecret(backendCalls[i].messages[1].content)
    /\ run.invoked > 0 =>
          backendCalls[Len(backendCalls)].messages =
             <<[role |-> "user",
                content |-> IF policy = "block" THEN run.packet
                            ELSE redact_content(run.packet, ignored, patOrder).content]>>
    /\ \A i \in 1..Len(receipts) :
          /\ ~HoldsDefaultSecret(receipts[i].stderr_tail)
          /\ ~HoldsDefaultSecret(receipts[i].error_reason)

\* C6 witness: a prompt has been handed to the backend, whose stderr held
\* secrets, and the receipt of the attempt carries the stderr redacted.
C6_Witness ==
    /\ run.invoked > 0
    /\ HoldsDefaultSecret(run.outcome.stderr)
    /\ run.step = "done"
    /\ receipts[Len(receipts)].stderr_tail = <<"***", "***">>

\* C7: under the blocking policy an attempt whose packet holds a match of an
\* enabled pattern ends with SecretDetected, and at no point of the attempt
\* is the backend invoked.
C7_BlockingPolicyAborts ==
    (policy = "block" /\ HoldsSecret(run.packet)) =>
        /\ run.invoked = 0
        /\ run.step \in {"gate", "fail", "done"}
        /\ run.step # "gate" => run.result = "SecretDetected"

\* C7 witness: a packet with a secret was refused under the blocking policy.
C7_Witness ==
    /\ policy = "block"
    /\ HoldsSecret(run.packet)
    /\ run.step = "done"
    /\ run.result = "SecretDetected"
    /\ receipts[Len(receipts)].error_kind = "SecretDetected"

\* Receipt i records a success of phase.
SuccessAt(i, phase) == receipts[i].phase = phase /\ receipts[i].exit_code = 0

\* C8: run_phase(P) with a prerequisite that has no successful receipt
\* returns the phase-dependency error without invoking the backend, staging
\* or promoting, and every successful receipt comes after a successful
\* receipt of each prerequisite of its phase.
C8_NoSilentSkip ==
    /\ (run.phase \in Phases
           /\ \E d \in dependencies(run.phase) :
                 \A i \in 1..Len(receipts) : ~SuccessAt(i, d)) =>
          /\ run.step = "done"
          /\ run.result = "PhaseDependencyError"
          /\ run.invoked = 0
          /\ run.staged = EmptyDir
          /\ artifactsDir = run.before
    /\ \A i \in 1..Len(receipts) :
          receipts[i].exit_code = 0 =>
             \A d \in dependencies(receipts[i].phase) :
                \E j \in 1..(i - 1) : SuccessAt(j, d)

\* C8 witness: after a success of Requirements, run_phase(Tasks) was refused.
C8_Witness ==
    /\ run.phase = "tasks"
    /\ run.result = "PhaseDependencyError"
    /\ \E i \in 1..Len(receipts) : SuccessAt(i, "requirements")

\* C9: can_run_phase(P) is true exactly when every prerequisite of P has a
\* successful receipt; with both final artifacts of Requirements in place
\* and no successful receipt of it, can_run_phase(Design) is false.
C9_CanRunPhaseIsReceiptDriven ==
    /\ \A phase \in Phases :
          can_run_phase(phase) <=>
             \A d \in dependencies(phase) : \E i \in 1..Len(receipts) : SuccessAt(i, d)
    /\ (phase_completed("requirements")
           /\ \A i \in 1..Len(receipts) : ~SuccessAt(i, "requirements")) =>
          ~can_run_phase("design")

\* C9 witness: both final artifacts of Requirements exist, no receipt
\* records its success, and Design cannot be run.
C9_Witness ==
    /\ phase_completed("requirements")
    /\ \A i \in 1..Len(receipts) : ~SuccessAt(i, "requirements")
    /\ ~can_run_phase("design")

\* The phases as get_latest_completed_phase scans them: last to first.
ScanOrder == <<"final", "fixup", "review", "tasks", "design", "requirements">>

\* phases.into_iter().find(|&phase| self.phase_completed(phase)), from
\* position i of the array on: <<phase>> for Some(phase), <<>> for None.
RECURSIVE FindCompleted(_, _)
FindCompleted(phases, i) ==
    IF i > Len(phases) THEN <<>>
    ELSE IF phase_completed(phases[i]) THEN <<phases[i]>>
    ELSE FindCompleted(phases, i + 1)

\* A fault of get_latest_completed_phase: the phases scanned first to last.
get_latest_completed_phase_forward == FindCompleted(PhaseOrder, 1)

\* ArtifactManager::get_latest_completed_phase
get_latest_completed_phase == FindCompleted(ScanOrder, 1)

\* ------------------------------------------------------------------------
\* Claims on the artifact store (checked under SpecStore)
\* ------------------------------------------------------------------------

\* The names of the final artifacts: both variants of every phase.
FinalNames ==
    {get_phase_filename(p, t) : p \in Phases, t \in {"Markdown", "CoreYaml"}}

\* C15: final artifacts are create-once: a final artifact that exists under
\* a name in artifacts/ is still there with the same content after every
\* step, so that the final namespace changes only by files that appear.
C15_FinalArtifactsCreateOnce ==
    [][\A n \in DOMAIN artifactsDir \cap FinalNames :
          /\ n \in DOMAIN artifactsDir'
          /\ artifactsDir'[n] = artifactsDir[n]]_vars

\* This step is the Ok return of a promotion that was called right after
\* the staging call that wrote the artifact it promotes, into a final name.
PromotesWhatWasJustStaged ==
    /\ op.name \in {"promote_staged_to_final", "promote_partial_to_final"}
    /\ op' = NoCall
    /\ ret'.ok
    /\ ret.of \in {"store_partial_artifact", "store_partial_staged_artifact"}
    /\ ret.name = op.staged_name
    /\ op.final_name \in FinalNames

\* The directory a promotion takes the staged copy from, after this step.
StagedDirAfter == IF op.staged_in = ".partial" THEN partialDir' ELSE artifactsDir'

\* c with every CR that stands before an LF dropped and every other CR
\* turned into an LF.
RECURSIVE UnixLineEndings(_, _)
UnixLineEndings(c, i) ==
    IF i > Len(c) THEN <<>>
    ELSE IF c[i] # "CR" THEN <<c[i]>> \o UnixLineEndings(c, i + 1)
    ELSE IF i < Len(c) /\ c[i + 1] = "LF" THEN UnixLineEndings(c, i + 1)
    ELSE <<"LF">> \o UnixLineEndings(c, i + 1)

\* C16 (as stated): staging an artifact and then promoting it yields a final
\* artifact whose content equals the staged input exactly, and the staged
\* copy no longer exists.
C16_PromotedEqualsStagedInput ==
    [][PromotesWhatWasJustStaged =>
          /\ Lookup(artifactsDir', op.final_name) = <<ret.content>>
          /\ Lookup(StagedDirAfter, op.staged_name) = <<>>]_vars

\* C16 (amended): the final artifact holds the staged input, exactly after
\* store_partial_staged_artifact and with its line endings turned into LF
\* after store_partial_artifact, and the staged copy no longer exists.
C16_PromotedEqualsNormalizedInput ==
    [][PromotesWhatWasJustStaged =>
          /\ Lookup(artifactsDir', op.final_name) =
                <<IF ret.of = "store_partial_artifact"
                  THEN UnixLineEndings(ret.content, 1) ELSE ret.content>>
          /\ Lookup(StagedDirAfter, op.staged_name) = <<>>]_vars

\* C16 witness: a partial artifact stored with a CRLF has been promoted; the
\* final artifact ends in LF and the partial is gone.
C16_Witness ==
    /\ op = NoCall
    /\ ret.of = "promote_partial_to_final"
    /\ ret.ok
    /\ ret.call.final_name \in FinalNames
    /\ Lookup(artifactsDir, ret.call.final_name) = <<<<"a", "LF">>>>
    /\ ~Exists(artifactsDir, ret.call.staged_name)

\* This step is a call made on the idle store.
CallStep == op = NoCall /\ nOps' = nOps + 1

\* The directory promotion `of` takes its staged copy from.
StagedDirOf(of) == IF of = "promote_staged_to_final" THEN partialDir ELSE artifactsDir

\* C17: promotion is not idempotent. A promote call goes on to promote only
\* when something is staged under its name; with nothing staged it returns
\* at once an error that says "does not exist" and changes nothing; and the
\* promote call that follows a successful promotion of the same artifact is
\* never one that goes on.
C17_PromoteNotIdempotent ==
    [][CallStep =>
          /\ (op' = NoCall
                 /\ ret'.of \in {"promote_staged_to_final", "promote_partial_to_final"}) =>
                /\ ~ret'.ok
                /\ ret'.err = "does not exist"
                /\ ~Exists(StagedDirOf(ret'.of), ret'.name)
                /\ artifactsDir' = artifactsDir
                /\ partialDir' = partialDir
          /\ op' # NoCall =>
                /\ Exists(StagedDirOf(op'.name), op'.staged_name)
                /\ ~(ret.of = op'.name /\ ret.ok
                        /\ ret.call.staged_name = op'.staged_name)]_vars

\* C17 witness: with the final artifact promoted and nothing staged any
\* more, promote_staged_to_final has returned the "does not exist" error.
C17_Witness ==
    /\ op = NoCall
    /\ ret.of = "promote_staged_to_final"
    /\ ~ret.ok
    /\ ret.err = "does not exist"
    /\ Exists(artifactsDir, ret.name)
    /\ ~Exists(partialDir, ret.name)

\* The two final artifacts of a phase, by name.
FinalPair(phase) ==
    CASE phase = "requirements" -> {"00-requirements.md", "00-requirements.core.yaml"}
      [] phase = "design" -> {"10-design.md", "10-design.core.yaml"}
      [] phase = "tasks" -> {"20-tasks.md", "20-tasks.core.yaml"}
      [] phase = "review" -> {"30-review.md", "30-review.core.yaml"}
      [] phase = "fixup" -> {"40-fixup.md", "40-fixup.core.yaml"}
      [] phase = "final" -> {"50-final.md", "50-final.core.yaml"}

\* C18: in every state and for every phase P, phase_completed(P) is true
\* exactly when both final artifacts of P exist in artifacts/; one variant
\* alone, staged or partial artifacts of P never make it true.
C18_CompletedIffBothFinals ==
    \A phase \in Phases :
        phase_completed(phase) <=> FinalPair(phase) \subseteq DOMAIN artifactsDir

\* C18 witness: Requirements has its markdown artifact, a partial artifact
\* and a staged structured artifact, and is not completed.
C18_Witness ==
    /\ "00-requirements.md" \in DOMAIN artifactsDir
    /\ "00-requirements.partial.md" \in DOMAIN artifactsDir
    /\ "00-requirements.core.yaml" \in DOMAIN partialDir
    /\ "00-requirements.core.yaml" \notin DOMAIN artifactsDir
    /\ ~phase_completed("requirements")

\* C19: in every state, for every phase P with phase_completed(P), both
\* final artifacts of P exist and both have a content that is not empty.
C19_CompletedArtifactsNonEmpty ==
    \A phase \in Phases :
        phase_completed(phase) =>
            \A n \in FinalPair(phase) : n \in DOMAIN artifactsDir /\ artifactsDir[n] # <<>>

\* The positions in PhaseOrder of the phases whose two final artifacts exist.
CompletedPositions ==
    {i \in 1..Len(PhaseOrder) : FinalPair(PhaseOrder[i]) \subseteq DOMAIN artifactsDir}

\* C20: get_latest_completed_phase returns the completed phase that is last
\* in the order Requirements < Design < Tasks < Review < Fixup < Final, none
\* exactly when no phase is completed, and Requirements when only the
\* Requirements artifacts exist.
C20_LatestCompletedPhase ==
    /\ IF CompletedPositions = {}
       THEN get_latest_completed_phase = <<>>
       ELSE get_latest_completed_phase =
               <<PhaseOrder[CHOOSE i \in CompletedPositions :
                               \A j \in CompletedPositions : j <= i]>>
    /\ DOMAIN artifactsDir = FinalPair("requirements") =>
          get_latest_completed_phase = <<"requirements">>

\* C20 witness: Requirements and Design are both completed and the latest
\* completed phase is Design.
C20_Witness ==
    /\ FinalPair("requirements") \cup FinalPair("design") \subseteq DOMAIN artifactsDir
    /\ get_latest_completed_phase = <<"design">>

\* C21: list_artifacts returns exactly the file names of the final
\* artifacts, in ascending lexicographic order and each once, never the name
\* of a staged or partial artifact, and the empty list when the artifacts
\* directory does not exist.
C21_ListArtifactsListsFinals ==
    LET listed == list_artifacts(TRUE, artifactsDir)
    IN /\ {listed[i] : i \in 1..Len(listed)} = FinalNames \cap DOMAIN artifactsDir
       /\ \A i, j \in 1..Len(listed) : i < j => ByteRank(listed[i]) < ByteRank(listed[j])
       /\ list_artifacts(FALSE, artifactsDir) = <<>>

\* ------------------------------------------------------------------------
\* Further claims on the redactor (checked under SpecRedact)
\* ------------------------------------------------------------------------

\* C22: for all content C and every redactor configuration, redact_string(C)
\* contains no substring matching any enabled pattern, and redact_string(C)
\* equals C when C has no match of an enabled pattern.
C22_RedactStringRemovesEnabledMatches ==
    out.op = "redact_string" =>
        /\ ~HoldsSecret(out.r)
        /\ ~HoldsSecret(content) => out.r = content

\* Whether t occurs in s as a run of consecutive characters.
Contains(s, t) == \E i \in 1..(Len(s) - Len(t) + 1) : SubSeq(s, i, i + Len(t) - 1) = t

\* The text of the line at the column range of match m.
MatchedText(c, m) == SubSeq(Lines(c)[m.line_number], m.start + 1, m.end)

\* C23: for every content and every enabled pattern, the context of each
\* SecretMatch returned by scan_for_secrets never contains the text matched
\* at that match's column range: it is at most 10 characters of the line
\* before the match, the literal [REDACTED], and at most 10 characters
\* after it.
C23_SafeContextHidesMatch ==
    out.op = "scan_for_secrets" =>
        \A k \in 1..Len(out.r) :
            LET m == out.r[k]
                line == Lines(content)[m.line_number]
            IN /\ \E b \in 0..ContextLen, a \in 0..ContextLen :
                     /\ b <= m.start
                     /\ m.end + a <= Len(line)
                     /\ m.context = SubSeq(line, m.start - b + 1, m.start)
                                       \o <<"[REDACTED]">>
                                       \o SubSeq(line, m.end + 1, m.end + a)
               /\ ~Contains(m.context, MatchedText(content, m))

\* ------------------------------------------------------------------------
\* Further claims on the orchestrator (checked under Spec)
\* ------------------------------------------------------------------------

\* The workflow None -> Requirements -> Design -> Tasks -> {Review | Final}
\* -> {Fixup | Final} -> Final: the states that follow a state.
Successors(state) ==
    CASE state = "none" -> {"requirements"}
      [] state = "requirements" -> {"design"}
      [] state = "design" -> {"tasks"}
      [] state = "tasks" -> {"review", "final"}
      [] state = "review" -> {"fixup", "final"}
      [] state = "fixup" -> {"final"}
      [] state = "final" -> {}

WorkflowStates == Phases \cup {"none"}

\* The elements of a sequence, which holds none of them twice.
ListsExactly(list, set) ==
    /\ {list[i] : i \in 1..Len(list)} = set
    /\ Len(list) = Cardinality(set)

\* An answer of legal_next_phases has just been given.
Answered == run'.planned # <<>> /\ run'.planned # run.planned

\* Giving the answer changed nothing but the answer.
AnswerOnly ==
    /\ run' = [run EXCEPT !.planned = run'.planned]
    /\ UNCHANGED <<policy, receipts, backendCalls, nAttempts>>
    /\ UNCHANGED <<artifactsDir, partialDir, partialExists, lockFile, dirs>>

\* C24 as stated: legal_next_phases returns exactly the successors of the
\* current state in the workflow graph; the result depends on nothing but
\* the current state and calling it changes no state.
C24_LegalNextIsSuccessors ==
    /\ [](/\ \A c \in WorkflowStates : ListsExactly(legal_next_phases(c), Successors(c))
          /\ run.planned # <<>> => ListsExactly(run.planned, Successors(current_phase)))
    /\ [][Answered => AnswerOnly]_vars

\* C24, amended: legal_next_phases returns the current phase itself, when
\* there is one, and the successors of the current state in the workflow
\* graph; the result depends on nothing but the current state and calling it
\* changes no state.
C24_LegalNextIsCurrentAndSuccessors ==
    /\ [](/\ \A c \in WorkflowStates :
                ListsExactly(legal_next_phases(c), Successors(c) \cup ({c} \ {"none"}))
          /\ run.planned # <<>> =>
                ListsExactly(run.planned,
                             Successors(current_phase) \cup ({current_phase} \ {"none"})))
    /\ [][Answered => AnswerOnly]_vars

\* C24 witness: with Requirements succeeded and Design not, the answer is
\* Requirements and Design.
C24_Witness ==
    /\ current_phase = "requirements"
    /\ run.planned = <<"requirements", "design">>

\* C25: the orchestrator never retries an LLM call by itself: one call of
\* run_phase invokes the backend at most once, whatever the outcome, and
\* the backend is invoked again only when run_phase is called again.
C25_NoAutoRetry ==
    /\ [](run.invoked <= 1 /\ Len(backendCalls) <= nAttempts)
    /\ [][backendCalls' # backendCalls =>
             /\ run.invoked = 0
             /\ run'.invoked = 1
             /\ Len(backendCalls') = Len(backendCalls) + 1]_vars

\* C25 witness: a first run_phase ended on a timeout of the backend after
\* one invocation, and the second invocation was made by a second run_phase.
C25_Witness ==
    /\ Len(receipts) >= 1
    /\ receipts[1].error_kind = "Timeout"
    /\ nAttempts = 2
    /\ Len(backendCalls) = 2
    /\ run.invoked = 1

\* The paths of an array are in ascending order, none twice.
SortedByPath(paths) ==
    \A i, j \in 1..Len(paths) : i < j => ByteRank(paths[i]) < ByteRank(paths[j])

\* Orders in which up to three entries may be produced.
ProductionOrders ==
    LET names == {"00-requirements.core.yaml", "00-requirements.md", "10-design.md"}
    IN {s \in UNION {[1..n -> names] : n \in 0..3} :
           \A i, j \in 1..Len(s) : i # j => s[i] # s[j]}

\* Sorting by path puts every production order in ascending order and keeps
\* the entries.
SortByPathSorts ==
    \A produced \in ProductionOrders :
        LET sorted == SortByPath(produced)
        IN /\ SortedByPath(sorted)
           /\ {sorted[i] : i \in 1..Len(sorted)} = {produced[i] : i \in 1..Len(produced)}
           /\ Len(sorted) = Len(produced)

\* C26: in every receipt the outputs array is sorted ascending by path, and
\* the packet files array likewise, whatever the order in which the entries
\* were produced.
C26_ReceiptArraysSorted ==
    /\ \A i \in 1..Len(receipts) :
          /\ SortedByPath(receipts[i].outputs)
          /\ SortedByPath(receipts[i].packet_files)
    /\ SortByPathSorts

\* C26 witness: the success receipt of Design, whose two outputs and two
\* packet files were produced with the markdown file first.
C26_Witness ==
    \E i \in 1..Len(receipts) :
        /\ receipts[i].phase = "design"
        /\ receipts[i].exit_code = 0
        /\ receipts[i].outputs = <<"10-design.core.yaml", "10-design.md">>
        /\ receipts[i].packet_files = <<"00-requirements.core.yaml", "00-requirements.md">>

(***************************************************************************)
(* Canonical serialization: to_jcs_string of                               *)
(* src/src/bin/regenerate_examples.rs.  A value in memory is a tree: a      *)
(* string, an array of values, or an object whose fields are kept in the    *)
(* order in which they were inserted.                                       *)
(***************************************************************************)

Str(v) == [t |-> "str", v |-> v]
Arr(items) == [t |-> "arr", items |-> items]
Obj(fields) == [t |-> "obj", fields |-> fields]

\* The keys of the records, in ascending order of their UTF-16 code units.
KeysInOrder == <<"blake3", "exit_code", "outputs", "path", "phase">>

KeyRank(key) == CHOOSE i \in 1..Len(KeysInOrder) : KeysInOrder[i] = key

\* RFC 8785, 3.2.3: the properties of an object sorted by their names.
RECURSIVE InsertByKey(_, _)
InsertByKey(sorted, field) ==
    IF sorted = <<>> THEN <<field>>
    ELSE IF KeyRank(sorted[1][1]) <= KeyRank(field[1])
    THEN <<sorted[1]>> \o InsertByKey(Tail(sorted), field)
    ELSE <<field>> \o sorted

RECURSIVE SortByKey(_)
SortByKey(fields) ==
    IF fields = <<>> THEN <<>>
    ELSE InsertByKey(SortByKey(SubSeq(fields, 1, Len(fields) - 1)), fields[Len(fields)])

\* serde_json_canonicalizer: the tree with the fields of every object
\* sorted, the items of an array in the order they have.
RECURSIVE canonicalize(_)
canonicalize(value) ==
    CASE value.t = "str" -> value
      [] value.t = "arr" ->
            Arr([i \in 1..Len(value.items) |-> canonicalize(value.items[i])])
      [] value.t = "obj" ->
            Obj(SortByKey([i \in 1..Len(value.fields) |->
                              <<value.fields[i][1], canonicalize(value.fields[i][2])>>]))

\* The JSON text of a tree, token by token, in the order the tree has.
RECURSIVE write_json(_)
RECURSIVE write_items(_, _)
RECURSIVE write_fields(_, _)
write_items(items, i) ==
    IF i > Len(items) THEN <<>>
    ELSE (IF i > 1 THEN <<",">> ELSE <<>>) \o write_json(items[i])
            \o write_items(items, i + 1)

write_fields(fields, i) ==
    IF i > Len(fields) THEN <<>>
    ELSE (IF i > 1 THEN <<",">> ELSE <<>>) \o <<"\"", fields[i][1], "\"", ":">>
            \o write_json(fields[i][2]) \o write_fields(fields, i + 1)

write_json(value) ==
    CASE value.t = "str" -> <<"\"", value.v, "\"">>
      [] value.t = "arr" -> <<"[">> \o write_items(value.items, 1) \o <<"]">>
      [] value.t = "obj" -> <<"{">> \o write_fields(value.fields, 1) \o <<"}">>

\* A fault of to_jcs_string: the tree written as it was built.
to_jcs_string_plain(value) == write_json(value)

\* to_jcs_string: serde_json::to_value, then the canonical bytes.
to_jcs_string(value) == write_json(canonicalize(value))

\* The orders in which the fields of a set may be inserted.
Orderings(fields) ==
    {s \in [1..Cardinality(fields) -> fields] :
        \A i, j \in 1..Cardinality(fields) : i # j => s[i] # s[j]}

\* The paths of the outputs of a receipt, sorted.
OutputPaths == <<"00-requirements.core.yaml", "00-requirements.md", "10-design.core.yaml">>

\* An entry of outputs, its two fields in either order.
OutputEntries(path) == {Obj(s) : s \in Orderings({<<"path", Str(path)>>, <<"blake3", Str("hash")>>})}

\* The outputs arrays with the first n paths.
RECURSIVE OutputArrays(_)
OutputArrays(n) ==
    IF n = 0 THEN {<<>>}
    ELSE {Append(a, e) : a \in OutputArrays(n - 1), e \in OutputEntries(OutputPaths[n])}

\* The records in memory: a receipt's phase, exit code and outputs, with
\* the fields of every object in any order of insertion.
Records ==
    UNION {Orderings({<<"phase", Str(phase)>>, <<"exit_code", Str(code)>>,
                      <<"outputs", Arr(outputs)>>}) :
             phase \in {"requirements", "design"}, code \in {"0", "1"},
             outputs \in UNION {OutputArrays(n) : n \in 0..MaxOutputs}}

\* Two trees with the same fields and values, whatever the order of the
\* fields of their objects.
RECURSIVE SameData(_, _)
SameData(a, b) ==
    /\ a.t = b.t
    /\ CASE a.t = "str" -> a.v = b.v
         [] a.t = "arr" ->
               /\ Len(a.items) = Len(b.items)
               /\ \A i \in 1..Len(a.items) : SameData(a.items[i], b.items[i])
         [] a.t = "obj" ->
               /\ Len(a.fields) = Len(b.fields)
               /\ \A i \in 1..Len(a.fields) : \E j \in 1..Len(b.fields) :
                     /\ a.fields[i][1] = b.fields[j][1]
                     /\ SameData(a.fields[i][2], b.fields[j][2])

\* to_jcs_string(&record)
Serialize ==
    /\ canonical' = [bytes |-> to_jcs_string(record), of |-> record]
    /\ UNCHANGED record
    /\ UNCHANGED <<lockVars, redactVars, storeVars, orchVars, llmVars>>

\* The same record is built once more, with its fields inserted in another
\* order.
Rebuild ==
    /\ \E r \in Orderings({record.fields[i] : i \in 1..Len(record.fields)}) :
          /\ r # record.fields
          /\ record' = Obj(r)
    /\ UNCHANGED canonical
    /\ UNCHANGED <<lockVars, redactVars, storeVars, orchVars, llmVars>>

InitCanon ==
    /\ record \in {Obj(fields) : fields \in Records}
    /\ canonical = NoBytes
    /\ LockIdle
    /\ RedactIdle
    /\ StoreIdle
    /\ OrchIdle
    /\ LlmIdle

NextCanon == Serialize \/ Rebuild

SpecCanon == InitCanon /\ [][NextCanon]_vars

StepOrder ==
    <<"purge", "packet", "gate", "invoke", "stage", "postprocess",
      "promote_md", "promote_core", "receipt", "done">>

StepRank(step) == CHOOSE i \in 1..Len(StepOrder) : StepOrder[i] = step

\* The two final names of the phase of the attempt.
RunOutputs ==
    {get_phase_filename(run.phase, "Markdown"), get_phase_filename(run.phase, "CoreYaml")}

\* The promotion of the attempt has completed: both outputs are final with
\* the content that was staged, and no staged copy of them is left.
PromotionCompleted ==
    \A name \in RunOutputs :
        /\ Exists(artifactsDir, name)
        /\ artifactsDir[name] = run.staged[name]
        /\ ~Exists(partialDir, name)

\* A success receipt is emitted by this step.
EmitsSuccess ==
    /\ Len(receipts') = Len(receipts) + 1
    /\ receipts'[Len(receipts')].exit_code = 0

\* C28: in a successful run_phase the steps occur in the order purge of
\* stale staging, redaction gate, LLM invocation, staging of the response,
\* promotion to the final namespace, emission of the success receipt; the
\* success receipt is never emitted before the promotion has completed, and
\* when run_phase returns no staged copy of the promoted artifact remains.
C28_StepsInOrder ==
    /\ [][/\ (run'.step # run.step /\ run'.step \notin {"purge", "fail", "done"}) =>
                StepRank(run'.step) = StepRank(run.step) + 1
          /\ (run'.step # run.step /\ run'.step = "done" /\ run'.result = "ok") =>
                run.step = "receipt"
          /\ partialExists' # partialExists \/ partialDir' # partialDir =>
                \/ run.step = "purge" /\ partialDir' = EmptyDir
                \/ run.step \in {"stage", "postprocess"}
                      /\ \A n \in DOMAIN partialDir : n \in DOMAIN partialDir'
                \/ run.step \in {"promote_md", "promote_core"}
          /\ backendCalls' # backendCalls => run.step = "invoke"
          /\ artifactsDir' # artifactsDir => run.step \in {"promote_md", "promote_core"}
          /\ EmitsSuccess => run.step = "receipt" /\ PromotionCompleted]_vars
    /\ []((run.step = "done" /\ run.result = "ok") =>
             /\ PromotionCompleted
             /\ receipts[Len(receipts)].phase = run.phase
             /\ receipts[Len(receipts)].exit_code = 0)

\* C28 witness: the second run_phase, made after an attempt that failed
\* and left its staged output, has returned with success.
C28_Witness ==
    /\ run.step = "done"
    /\ run.result = "ok"
    /\ Len(receipts) = 2
    /\ receipts[1].error_kind = "MalformedOutput"
    /\ partialDir = EmptyDir
    /\ run.invoked = 1

\* What is in the staging directory is what the attempt has staged.
StagingIsOfThisAttempt ==
    \A name \in DOMAIN partialDir :
        /\ name \in DOMAIN run.staged
        /\ partialDir[name] = run.staged[name]

\* C29 as stated: in every reachable state the staging directory holds
\* artifacts only of the phase currently being attempted or of the most
\* recent failed attempt: output staged by an older attempt is never present
\* once a newer attempt has staged its own output.
C29_StagingHoldsLatestAttempt ==
    run.staged # EmptyDir => StagingIsOfThisAttempt

\* C29, amended: once an attempt whose purge removed the staging directory,
\* or found none, has staged its own output, the staging directory holds
\* that output only; a purge that failed leaves the older output in place.
C29_StagingHoldsLatestAttemptAfterPurge ==
    (run.staged # EmptyDir /\ ~run.warned) => StagingIsOfThisAttempt

\* C29 witness: a first attempt failed on a malformed output and left what
\* it staged; the second attempt purged it and has staged its own output.
C29_Witness ==
    /\ Len(receipts) = 1
    /\ receipts[1].error_kind = "MalformedOutput"
    /\ nAttempts = 2
    /\ ~run.warned
    /\ run.step = "promote_md"
    /\ DOMAIN partialDir = RunOutputs

\* ------------------------------------------------------------------------
\* Further claims on the artifact store (checked under SpecStore)
\* ------------------------------------------------------------------------

\* C30: remove_stale_partial_dir is best-effort: it returns success in every
\* case (staging directory absent, removed, or removal failed) and it never
\* changes artifacts/, receipts/ or context/; when the removal succeeds no
\* staged artifact remains, and a later store_partial_staged_artifact still
\* succeeds by recreating the staging directory.
C30_PurgeIsBestEffort ==
    [][CallStep =>
          /\ ret'.of = "remove_stale_partial_dir" =>
                /\ ret'.ok
                /\ artifactsDir' = artifactsDir
                /\ receipts' = receipts
                /\ dirs' = dirs
                /\ \/ ~partialExists' /\ partialDir' = EmptyDir /\ ~ret'.warned
                   \/ /\ partialExists
                      /\ UNCHANGED <<partialExists, partialDir>>
                      /\ ret'.warned
          /\ ret'.of = "store_partial_staged_artifact" =>
                /\ ret'.ok
                /\ partialExists'
                /\ Exists(partialDir', ret'.name)
                /\ partialDir'[ret'.name] = ret'.content]_vars

\* C30 witness: with a final artifact stored and an artifact staged, the
\* removal failed, the call returned success, and both are still there.
C30_Witness ==
    /\ ret.of = "remove_stale_partial_dir"
    /\ ret.ok
    /\ ret.warned
    /\ partialDir # EmptyDir
    /\ artifactsDir # EmptyDir


\* ------------------------------------------------------------------------
\* The ignore list across the operations of the redactor (SpecRedact)
\* ------------------------------------------------------------------------

\* C31: the ignore list applies to every operation of the redactor: for a
\* pattern on the ignore list scan_for_secrets reports no match of it,
\* has_secrets is not made true by it, and neither redact_content nor
\* redact_string replaces text that matches only that pattern, while the
\* matches of the other patterns are still handled.
C31_IgnoreListAppliesEverywhere ==
    /\ out.op = "scan_for_secrets" =>
          /\ \A k \in 1..Len(out.r) : out.r[k].pattern_id \notin ignored
          /\ HoldsSecret(content) => out.r # <<>>
    /\ out.op = "has_secrets" => (out.r <=> HoldsSecret(content))
    /\ out.op = "redact_content" =>
          /\ ~HoldsSecret(content) => out.r.content = content
          /\ HoldsSecret(content) => out.r.content # content
    /\ out.op = "redact_string" =>
          /\ ~HoldsSecret(content) => out.r = content
          /\ HoldsSecret(content) => out.r # content


(***************************************************************************)
(* The invocation helpers of src/src/orchestrator/llm.rs, driven with the   *)
(* texts a configuration may hold for phase_timeout.                        *)
(***************************************************************************)

\* Characters of a configured timeout: digits, signs, a blank, a letter.
TimeoutChars == {"0", "3", "7", "+", "-", " ", "x"}

\* The texts of at most three such characters, and u64::MAX + 1.
TimeoutTexts ==
    UNION {[1..n -> TimeoutChars] : n \in 0..3}
        \cup {<<"1", "8", "4", "4", "6", "7", "4", "4", "0", "7",
                "3", "7", "0", "9", "5", "5", "1", "6", "1", "6">>}

\* The configurations: phase_timeout absent, or set to one of the texts.
Configs == {NoConfig} \cup {[k \in {"phase_timeout"} |-> t] : t \in TimeoutTexts}

\* self.build_llm_invocation(phase_id, prompt, config)
BuildLlmInvocation ==
    \E phase \in Phases : \E prompt \in PacketSamples :
        /\ invocation.op = "none"
        /\ invocation' = [op |-> "build_llm_invocation",
                          call |-> build_llm_invocation(phase, prompt, config)]
        /\ UNCHANGED config
        /\ UNCHANGED <<lockVars, redactVars, storeVars, orchVars, canonVars>>

\* self.run_llm_invocation(prompt, phase_id, config), the backend answering o.
RunLlmInvocation ==
    \E phase \in Phases : \E prompt \in PacketSamples : \E o \in BackendOutcomes :
        /\ invocation.op = "none"
        /\ invocation' = [op |-> "run_llm_invocation", prompt |-> prompt,
                          call |-> build_llm_invocation(phase, prompt, config),
                          answer |-> o,
                          r |-> run_llm_invocation(o)]
        /\ UNCHANGED config
        /\ UNCHANGED <<lockVars, redactVars, storeVars, orchVars, canonVars>>

InitInvoke ==
    /\ config \in Configs
    /\ invocation = NoInvocation
    /\ LockIdle
    /\ RedactIdle
    /\ StoreIdle
    /\ OrchIdle
    /\ CanonIdle

NextInvoke == BuildLlmInvocation \/ RunLlmInvocation

SpecInvoke == InitInvoke /\ [][NextInvoke]_vars

\* The decimal numeral of n, without leading zeros ("0" for zero).
RECURSIVE Decimal(_)
Decimal(n) ==
    IF n < 10 THEN <<DigitText[n + 1]>>
    ELSE Append(Decimal(n \div 10), DigitText[(n % 10) + 1])

\* The text is a decimal numeral, with or without a "+" in front, that
\* denotes n.
Denotes(text, n) ==
    LET ds == IF text # <<>> /\ text[1] = "+" THEN Tail(text) ELSE text
    IN /\ ds # <<>>
       /\ \A i \in 1..Len(ds) : ds[i] \in Digits
       /\ Len(StripZeros(ds)) <= 9
       /\ (IF StripZeros(ds) = <<>> THEN <<"0">> ELSE StripZeros(ds)) = Decimal(n)

\* The text denotes some number of seconds (numerals of up to nine digits,
\* the ones the integers of the model hold; the one longer text the
\* configurations have is above u64::MAX).
IsSeconds(text) ==
    LET ds == IF text # <<>> /\ text[1] = "+" THEN Tail(text) ELSE text
    IN /\ ds # <<>>
       /\ \A i \in 1..Len(ds) : ds[i] \in Digits
       /\ Len(StripZeros(ds)) <= 9

\* C32: the invocation built for a phase carries a timeout equal to the
\* configured phase_timeout in seconds when that value is present and parses
\* as a non-negative integer, and 600 seconds in every other case; it
\* carries exactly one user message holding the prompt; and a timeout of the
\* backend is returned as an error of run_llm_invocation, not as a result
\* with exit code 0.
C32_InvocationTimeoutAndMessage ==
    invocation.op # "none" =>
        /\ IF "phase_timeout" \in DOMAIN config /\ IsSeconds(config["phase_timeout"])
           THEN Denotes(config["phase_timeout"], invocation.call.timeout)
           ELSE invocation.call.timeout = 600
        /\ Len(invocation.call.messages) = 1
        /\ invocation.call.messages[1].role = "user"
        /\ invocation.op = "run_llm_invocation" =>
              /\ invocation.call.messages[1].content = invocation.prompt
              /\ invocation.answer.kind = "Timeout" =>
                    /\ ~invocation.r.ok
                    /\ invocation.r.error = "Timeout"
                    /\ invocation.r.exit_code # 0

\* C32 witness: a configured timeout of 37 seconds was read, and a run with
\* that configuration ended in the backend's timeout.
C32_Witness ==
    /\ "phase_timeout" \in DOMAIN config
    /\ config["phase_timeout"] = <<"3", "7">>
    /\ invocation.op = "run_llm_invocation"
    /\ invocation.call.timeout = 37
    /\ invocation.answer.kind = "Timeout"
    /\ ~invocation.r.ok

\* C32 witness of the default: a text that is no numeral gave 600 seconds.
C32_WitnessDefault ==
    /\ "phase_timeout" \in DOMAIN config
    /\ config["phase_timeout"] = <<"-", "3">>
    /\ invocation.op = "build_llm_invocation"
    /\ invocation.call.timeout = 600


\* C33: redact_content is total: for every content it returns a result and
\* never panics or addresses a range outside the string it edits, with
\* several matches on one line, markers shorter or longer than the text
\* they replace, and matches on the last line.
C33_RedactContentTotal ==
    out.op = "redact_content" => out.r.kind = "ok"


\* ------------------------------------------------------------------------
\* Promotions that return an error (SpecStore)
\* ------------------------------------------------------------------------

\* The step returns an error of one of the two promotions.
PromotionFails ==
    /\ nOps' # nOps \/ op # NoCall
    /\ op' = NoCall
    /\ ret'.of \in {"promote_staged_to_final", "promote_partial_to_final"}
    /\ ~ret'.ok

\* C34: whenever promote_staged_to_final or promote_partial_to_final returns
\* an error no promotion took place: the final namespace is as it was when
\* the call was made and the staged / partial source is still there; an
\* error is never returned after the final artifact has been written.
C34_FailedPromotionChangesNothing ==
    [][PromotionFails =>
         IF op = NoCall
         THEN artifactsDir' = artifactsDir /\ partialDir' = partialDir
         ELSE /\ Lookup(artifactsDir', op.final_name) = op.pre.final
              /\ Lookup(IF op.staged_in = ".partial" THEN partialDir' ELSE artifactsDir',
                        op.staged_name) = op.pre.staged
              /\ op.pre.staged # <<>>]_vars


\* C35: redaction is deterministic: for a fixed configuration and a fixed
\* input redact_string and redact_content return the same output whatever
\* the order in which the patterns are applied, also when matches of
\* different patterns overlap or are adjacent.
C35_RedactionIgnoresPatternOrder ==
    /\ out.op = "redact_string" =>
          \A order \in PatternOrders : redact_string(content, order) = out.r
    /\ out.op = "redact_content" =>
          \A order \in PatternOrders :
              LET other == redact_content(content, ignored, order)
              IN other.kind = out.r.kind /\ other.content = out.r.content


\* ------------------------------------------------------------------------
\* Partial artifacts and the purge of the staging directory (SpecStore)
\* ------------------------------------------------------------------------

\* get_artifact_path: the directory an artifact of a type lives in.
get_artifact_path(artifact_type) ==
    IF artifact_type = "Context" THEN "context" ELSE "artifacts"

\* artifact_exists for the types kept under artifacts/.
artifact_exists(dir, name, artifact_type) ==
    get_artifact_path(artifact_type) = "artifacts" /\ Exists(dir, name)

\* has_partial_artifact(phase)
has_partial_artifact(dir, phase) ==
    artifact_exists(dir, get_phase_filename(phase, "Partial"), "Partial")

\* C36: after remove_stale_partial_dir has removed the staging directory,
\* has_partial_artifact(P) is false for every phase P: no partial artifact
\* written by store_partial_artifact survives the purge.
C36_PurgeRemovesPartialArtifacts ==
    (op = NoCall /\ ret.of = "remove_stale_partial_dir" /\ ~partialExists) =>
        \A P \in Phases : ~has_partial_artifact(artifactsDir, P)


\* ------------------------------------------------------------------------
\* Release by a holder whose lock was taken over (SpecLock)
\* ------------------------------------------------------------------------

\* a gives up its FileLock in this step (explicit release or teardown of
\* its manager) while b, which took the lock over with force, holds it.
ReleasesUnder(a, b) ==
    /\ a # b
    /\ alive[a] /\ held[a] /\ alive'[a] /\ ~held'[a]
    /\ alive[b] /\ held[b] /\ force[b] /\ alive'[b] /\ held'[b]
    /\ lockFile # NoLock /\ lockFile.pid = b

\* C37: after b has taken over the lock with force = true while a still
\* held it, the release performed by a leaves b's lock in place: as long as
\* b has not released, an acquire without force by another process fails,
\* with ConcurrentExecution when b's lock is not stale.
C37_ReleaseLeavesTakenOverLock ==
    [][\A a \in Procs : \A b \in Procs :
         ReleasesUnder(a, b) =>
            /\ lockFile' = lockFile
            /\ \A q \in Procs \ {b} :
                  /\ (FileLockAcquire(q, FALSE).kind # "ok")'
                  /\ (~IsStale(lockFile) =>
                         FileLockAcquire(q, FALSE).kind = "ConcurrentExecution")']_vars


\* ------------------------------------------------------------------------
\* What new_with_force has changed when the acquisition fails (SpecLock)
\* ------------------------------------------------------------------------

\* p's acquire returns ConcurrentExecution or StaleLock in this step.
AcquireFails(p) ==
    AcquireReturns(p) /\ res'[p].kind \in {"ConcurrentExecution", "StaleLock"}

\* p, inside new_with_force and not yet holding the lock, takes a step.
StepsBeforeLock(p) ==
    /\ alive[p] /\ pc[p] \in {"ensure_spec_dirs", "acquire"}
    /\ pc'[p] # pc[p]
    /\ ~held'[p]

\* C38 (as stated): when new_with_force fails to acquire the lock it has
\* changed nothing under the spec root: no directory or file has been
\* created and the lock file is untouched; no write to the spec tree
\* precedes the acquisition of the lock.
C38_FailedAcquireChangesNothing ==
    [][\A p \in Procs :
         StepsBeforeLock(p) =>
            /\ dirs' = dirs
            /\ lockFile' = lockFile
            /\ artifactsDir' = artifactsDir
            /\ partialDir' = partialDir]_vars

\* C38 (amended): before it acquires the lock new_with_force creates the
\* directories base, artifacts, receipts and context where they are missing
\* and nothing else; the acquire that fails leaves the lock file and the
\* spec tree as they are, and no file and no staging directory is created
\* by a call that fails to acquire.
C38_FailedAcquireOnlyEnsuresSpecDirs ==
    [][\A p \in Procs :
         /\ StepsBeforeLock(p) =>
               /\ dirs \subseteq dirs'
               /\ dirs' \subseteq dirs \cup SpecDirs
               /\ lockFile' = lockFile
               /\ artifactsDir' = artifactsDir
               /\ partialDir' = partialDir
               /\ partialExists' = partialExists
         /\ AcquireFails(p) => dirs' = dirs /\ lockFile' = lockFile]_vars

\* C38 witness: a call was refused with ConcurrentExecution; the spec
\* directories are there, the staging directory is not, and the holder's
\* lock file is in place.
C38_Witness ==
    \E p \in Procs : \E q \in Procs \ {p} :
        /\ pc[p] = "idle" /\ res[p].kind = "ConcurrentExecution"
        /\ alive[q] /\ held[q] /\ lockFile.pid = q
        /\ SpecDirs \subseteq dirs
        /\ ".partial" \notin dirs


\* ------------------------------------------------------------------------
\* The order of the phases along legal steps (Spec)
\* ------------------------------------------------------------------------

\* Position of a workflow state in the order Requirements < Design < Tasks
\* < Review < Fixup < Final; no phase completed comes before them all.
PhaseRank(state) ==
    IF state = "none" THEN 0
    ELSE CHOOSE i \in 1..Len(PhaseOrder) : PhaseOrder[i] = state

\* The phases legal_next_phases offers in a state.
Offered(state) ==
    {legal_next_phases(state)[i] : i \in 1..Len(legal_next_phases(state))}

\* The states reached from a state by at most n legal steps.
RECURSIVE ReachedWithin(_, _)
ReachedWithin(state, n) ==
    IF n = 0 THEN {state}
    ELSE LET near == ReachedWithin(state, n - 1)
         IN near \cup UNION {Offered(s) : s \in near}

\* The table of legal steps: no step goes back, Final is reached from every
\* state, Fixup is offered only from Review or Fixup, Final offers Final.
LegalStepsGoForward ==
    /\ \A c \in WorkflowStates : \A next \in Offered(c) : PhaseRank(next) >= PhaseRank(c)
    /\ \A c \in WorkflowStates : "final" \in ReachedWithin(c, Len(PhaseOrder))
    /\ \A c \in WorkflowStates : "fixup" \in Offered(c) => c \in {"review", "fixup"}
    /\ Offered("final") = {"final"}

\* C39: the phase state never regresses along legal steps: every phase
\* returned by legal_next_phases is the current phase or a later one in the
\* order Requirements < Design < Tasks < Review < Fixup < Final; Final is
\* reachable from every state by a finite chain of legal steps, Fixup is
\* offered only from Review or Fixup, and from Final the only legal phase
\* is Final.
C39_PhaseStateNeverRegresses ==
    /\ [](/\ LegalStepsGoForward
          /\ \A i \in 1..Len(run.planned) :
                PhaseRank(run.planned[i]) >= PhaseRank(current_phase))
    /\ [][PhaseRank(current_phase') >= PhaseRank(current_phase)]_vars

\* C39 witness: with Requirements and Design succeeded the answer is Design
\* and Tasks.
C39_Witness ==
    /\ has_successful_receipt("requirements")
    /\ current_phase = "design"
    /\ run.planned = <<"design", "tasks">>


\* ------------------------------------------------------------------------
\* A later attempt of a phase whose attempt failed or was killed (Spec)
\* ------------------------------------------------------------------------

\* The last attempt was executed and did not end in success: it failed,
\* timed out, or the process was killed in the middle of it.
AttemptFailed ==
    /\ run.step = "done"
    /\ run.result \notin {"none", "ok", "PhaseDependencyError"}

\* The backend answered the attempt with a result the phase can use.
BackendSucceeded ==
    run.outcome.kind = "ok" /\ ~Malformed(run.response)

\* C40: a failed, timed-out or crashed attempt never blocks a later attempt
\* of the same phase: with the lock held again run_phase for that phase is
\* executable again, the leftover staged output is purged or overwritten,
\* and when the backend then succeeds the attempt ends with the phase
\* completed.
C40_FailedAttemptNeverBlocks ==
    /\ [](/\ AttemptFailed => run_phase(run.phase) = "execute"
          /\ (run.step = "done" /\ BackendSucceeded) =>
                /\ run.result = "ok"
                /\ phase_completed(run.phase)
                /\ PromotionCompleted
                /\ has_successful_receipt(run.phase))
    /\ [][/\ (AttemptFailed /\ nAttempts' # nAttempts /\ run'.phase = run.phase) =>
                run'.step = "purge"
          /\ (run.step = "stage" /\ run'.step \notin {"stage", "done"}) =>
                /\ run'.step = "postprocess"
                /\ Lookup(partialDir', get_phase_filename(run.phase, "Markdown"))
                      = <<run.response>>]_vars

\* C40 witness: an attempt of Requirements failed with what it had staged;
\* the next attempt could not remove the staging directory, the backend
\* succeeded, and the phase is completed.
C40_Witness ==
    /\ \E i \in 1..Len(receipts) :
          /\ receipts[i].phase = "requirements"
          /\ receipts[i].exit_code # 0
          /\ receipts[i].error_kind = "MalformedOutput"
    /\ run.phase = "requirements" /\ run.step = "done" /\ run.result = "ok"
    /\ run.warned
    /\ BackendSucceeded
    /\ phase_completed("requirements")

====
